---- MODULE Spec2Model ----
(***************************************************************************)
(* NFM facility-management system: the store (workers, attendance), the   *)
(* two attendance forms that write it, and the pages that aggregate it    *)
(* (payroll, attendance monthly summary, invoice labour total, worker     *)
(* KPI).                                                                  *)
(*                                                                         *)
(* Numbers.  Hours are kept in hundredths of an hour (the forms store     *)
(* round(h, 2)).  Pay and scores are exact rationals [n, d]; the source   *)
(* computes them in binary floating point, whose rounding error is not    *)
(* modelled.  Dates are day numbers of a model calendar whose months are  *)
(* MonthLen days long.                                                    *)
(***************************************************************************)
EXTENDS Integers, Sequences, FiniteSets, Bags, TLC

\* ------------------------------------------------------------------------
\* Bounds of the model
\* ------------------------------------------------------------------------
\* The number of rows the store holds, workers and attendance together.
MaxRows == 4
\* Browser sessions that save attendance at the same time.
MaxSessions == 2

\* ------------------------------------------------------------------------
\* Program constants
\* ------------------------------------------------------------------------
HoursScale == 100
WorkDays == 26
DayHours == 8
OtThreshold == 8
OtCap == 40
FleetCap == 60
SeqWidth == 3
LastOfWidth == 999

\* ------------------------------------------------------------------------
\* Value domains
\* ------------------------------------------------------------------------
\* What is typed into "Add New Worker": code, name, position, salary, status.
WorkerInputs ==
    { [worker_code |-> 1, full_name |-> "n1", position |-> "Supervisor",
       salary |-> 20800, status |-> "Active"],
      [worker_code |-> 2, full_name |-> "n1", position |-> "Worker",
       salary |-> 20800, status |-> "Active"],
      [worker_code |-> 2, full_name |-> "n2", position |-> "Worker",
       salary |-> 20800, status |-> "Inactive"] }
status_options == {"Present", "Absent", "Leave", "Off"}
\* Model calendar: month m is the days 2m-1 and 2m.  Day 2 is the last day
\* of month 1, day 3 the first day of month 2.
Dates == {2, 3}
Months == {1, 2}
InTimes == {480}
OutTimes == {1020}

\* A nullable cell: <<>> is SQL NULL / Python None, <<v>> a value.
NULL == <<>>
Some(v) == <<v>>

\* ------------------------------------------------------------------------
\* Arithmetic helpers
\* ------------------------------------------------------------------------
\* Exact rationals n/d with d > 0, kept in lowest terms.
RECURSIVE GCD(_, _)
GCD(a, b) == IF b = 0 THEN a ELSE GCD(b, a % b)
Abs(x) == IF x < 0 THEN -x ELSE x
Rat(n, d) ==
    LET g == GCD(Abs(n), d)
    IN  [n |-> n \div g, d |-> d \div g]
RatEq(a, b) == a.n * b.d = b.n * a.d
RatLeq(a, b) == a.n * b.d <= b.n * a.d
RatAdd(a, b) ==
    LET g == GCD(a.d, b.d)
    IN  Rat(a.n * (b.d \div g) + b.n * (a.d \div g), (a.d \div g) * b.d)
RatMul(a, b) ==
    LET x == Rat(a.n, b.d)
        y == Rat(b.n, a.d)
    IN  Rat(x.n * y.n, x.d * y.d)
RatScale(k, a) == RatMul(Rat(k, 1), a)
RatZero == Rat(0, 1)
Min(a, b) == IF a <= b THEN a ELSE b
Max(a, b) == IF a >= b THEN a ELSE b

\* Python round(x, 0) of the value n/d, d > 0, n >= 0: to the nearest
\* integer, a tie going to the even neighbour.
round0(q) ==
    LET fl == q.n \div q.d
        r2 == 2 * (q.n % q.d)
    IN  IF r2 < q.d THEN fl
        ELSE IF r2 > q.d THEN fl + 1
        ELSE IF fl % 2 = 0 THEN fl ELSE fl + 1

RECURSIVE SumSeq(_)
SumSeq(s) == IF s = <<>> THEN 0 ELSE Head(s) + SumSeq(Tail(s))

\* The elements of a bag listed with their multiplicity, in some order.
RECURSIVE BagToSeq(_)
BagToSeq(B) ==
    IF BagToSet(B) = {} THEN <<>>
    ELSE LET e == CHOOSE x \in BagToSet(B) : TRUE
         IN  <<e>> \o BagToSeq(B (-) SetToBag({e}))

\* All enumerations of the set S, without repetition, in which Leq(a, b)
\* holds for every a listed before b: the orders a sort may deliver when it
\* does not say how ties are broken.
Orderings(S, Leq(_, _)) ==
    {s \in [1..Cardinality(S) -> S] :
        /\ \A i, j \in 1..Cardinality(S) : i # j => s[i] # s[j]
        /\ \A i, j \in 1..Cardinality(S) : i < j => Leq(s[i], s[j])}

\* ------------------------------------------------------------------------
\* State
\* ------------------------------------------------------------------------
VARIABLES
    workers,      \* table workers: sequence of rows, id = position
    attendance,   \* table attendance: bag of rows
    work_orders,  \* table work_orders: bag of rows
    fleet_timesheet, \* table fleet_timesheet: bag of rows
    out,          \* what the page on display delivered (NoOut: a form page)
    payIn,        \* row handed to a pay computation
    payOut,       \* what the pay computation and its rounding delivered
    sessions,     \* per browser session: the attendance save in progress
    kpiIn,        \* aggregated row handed to the KPI score computation
    kpiOut,       \* the scores it delivered
    dbOut,        \* outcome of a call of the database helper
    again,        \* what a second computation of the page on display delivered
    files,        \* the files of the server's working and data directories
    invoices,     \* table invoices: set of rows, invoice_no unique
    vehicle_timesheets \* table vehicle_timesheets: set of rows

\* The variables only the specifications of single computations and of
\* concurrent sessions change.
aux == <<sessions, kpiIn, kpiOut, dbOut, again>>

\* What the server holds besides the four tables above; only the
\* specifications of concurrent requests change it.
more == <<files, invoices, vehicle_timesheets>>

vars == <<workers, attendance, work_orders, fleet_timesheet, out, payIn, payOut, aux, more>>

NoOut == [page |-> "none"]
NoPay == [page |-> "none"]
NoKpi == [page |-> "none"]
NoCall == [fn |-> "none"]
Idle == [pc |-> "idle"]
Sessions == 1..MaxSessions
MoreIdle ==
    /\ files = <<>>
    /\ invoices = {}
    /\ vehicle_timesheets = {}
AuxIdle ==
    /\ sessions = [s \in Sessions |-> Idle]
    /\ kpiIn = NoKpi
    /\ kpiOut = NoKpi
    /\ dbOut = NoCall
    /\ again = NoOut
    /\ MoreIdle
NoRow == [salary |-> NULL, total_hours |-> 0, total_ot |-> 0, month |-> 1]

WorkerIds == DOMAIN workers
StoredRows ==
    Len(workers) + BagCardinality(attendance) + BagCardinality(work_orders)
    + BagCardinality(fleet_timesheet)

AttRow(w, d, st, h, ot) ==
    [worker_id |-> w, att_date |-> d, status |-> st,
     hours_worked |-> h, overtime_hours |-> ot]

\* ------------------------------------------------------------------------
\* Workers page
\* ------------------------------------------------------------------------
\* "Save New Worker": INSERT INTO workers; the salary comes from a number
\* input whose minimum is 0.
SaveNewWorker(w) ==
    /\ StoredRows < MaxRows
    /\ workers' = Append(workers, w)
    /\ UNCHANGED <<attendance, work_orders, fleet_timesheet, out, payIn, payOut, aux, more>>

\* ------------------------------------------------------------------------
\* Attendance forms
\* ------------------------------------------------------------------------
ActiveIds == {i \in WorkerIds : workers[i].status = "Active"}

\* f"{worker_code} - {full_name} ({position})"
Label(i) == <<workers[i].worker_code, workers[i].full_name, workers[i].position>>
worker_labels == {Label(i) : i \in ActiveIds}

\* worker_id_map = {label: id ...} over the rows of SELECT .. WHERE
\* status = 'Active' ORDER BY worker_code.  A later row with the same label
\* replaces an earlier one, and rows with the same label have the same code,
\* whose relative order the query leaves open: the ids the map may hold for
\* a label.
worker_id_map(label) == {i \in ActiveIds : Label(i) = label}

\* hours_worked = round(diff / 3600, 2), overtime = max(0, hours - 8); both
\* 0 unless the out time is after the in time.  Times are minutes of the
\* day; the result is in hundredths of an hour.
hours_worked(in_time, out_time) ==
    IF out_time > in_time
    THEN round0(Rat((out_time - in_time) * HoursScale, 60))
    ELSE 0

\* Faulty variant of the overtime: the difference to 8 hours, not clamped at 0.
overtime_hours_unclamped(in_time, out_time) ==
    IF out_time > in_time
    THEN hours_worked(in_time, out_time) - OtThreshold * HoursScale
    ELSE 0

overtime_hours(in_time, out_time) ==
    IF out_time > in_time
    THEN Max(0, hours_worked(in_time, out_time) - OtThreshold * HoursScale)
    ELSE 0

\* SELECT * FROM attendance WHERE worker_id = .. AND att_date = ..; a failed
\* read delivers no rows.
ExistingRows(worker_id, att_date, readOk) ==
    IF readOk
    THEN {r \in BagToSet(attendance) :
            r.worker_id = worker_id /\ r.att_date = att_date}
    ELSE {}

\* INSERT, or UPDATE ... WHERE id = existing["id"] of one matching row.  A
\* statement that fails (execute returns False) leaves the table as it was:
\* a stuttering step.
WriteAttendance(existing, row) ==
    IF existing = {}
    THEN /\ StoredRows < MaxRows
         /\ attendance' = attendance (+) SetToBag({row})
    ELSE \E e \in existing :
            attendance' = (attendance (-) SetToBag({e})) (+) SetToBag({row})

\* Faulty variant of what the daily-entry form saves: the computed hours whatever
\* the status.
hours_to_save_any_status(status, in_time, out_time) == hours_worked(in_time, out_time)

\* if status != "Present": hours_to_save = 0.0, ot_to_save = 0.0
hours_to_save(status, in_time, out_time) ==
    IF status # "Present" THEN 0 ELSE hours_worked(in_time, out_time)
ot_to_save(status, in_time, out_time) ==
    IF status # "Present" THEN 0 ELSE overtime_hours(in_time, out_time)

\* Attendance page, tab "Daily Entry", button "Save Attendance".
DailyEntrySave(sel_worker_label, worker_id, att_date, status, in_time, out_time, readOk) ==
    /\ out = NoOut
    /\ sel_worker_label \in worker_labels
    /\ worker_id \in worker_id_map(sel_worker_label)
    /\ LET existing == ExistingRows(worker_id, att_date, readOk)
       IN  WriteAttendance(existing,
               AttRow(worker_id, att_date, status,
                      hours_to_save(status, in_time, out_time),
                      ot_to_save(status, in_time, out_time)))
    /\ UNCHANGED <<workers, work_orders, fleet_timesheet, out, payIn, payOut, aux, more>>

\* SELECT ... WHERE status = 'Active' AND position LIKE supervisor/engineer
IsSupervisor(i) ==
    workers[i].status = "Active" /\ workers[i].position \in {"Supervisor", "Engineer"}

\* Supervisor Mobile page, tab "Quick Attendance", button "Save Attendance".
QuickAttendanceSave(sel_worker_label, worker_id, att_date, in_time, out_time, readOk) ==
    /\ out = NoOut
    /\ \E s \in WorkerIds : IsSupervisor(s)
    /\ sel_worker_label \in worker_labels
    /\ worker_id \in worker_id_map(sel_worker_label)
    /\ LET existing == ExistingRows(worker_id, att_date, readOk)
       IN  WriteAttendance(existing,
               AttRow(worker_id, att_date, "Present",
                      hours_worked(in_time, out_time),
                      overtime_hours(in_time, out_time)))
    /\ UNCHANGED <<workers, work_orders, fleet_timesheet, out, payIn, payOut, aux, more>>

\* ------------------------------------------------------------------------
\* Pay computation: the three copies of the source
\* ------------------------------------------------------------------------
\* float(row.get("salary") or 0): a missing salary counts as 0.
salary_of(row) == IF row.salary = NULL THEN 0 ELSE row.salary[1]

PayOf(basic_pay, ot_pay, total_pay) ==
    [basic_pay |-> basic_pay, ot_pay |-> ot_pay, total_pay |-> total_pay]

\* Faulty variants of the payroll pay computation: no guard on the salary; overtime
\* paid at 1.5x.
payroll_compute_pay_noguard(row) ==
    LET salary == salary_of(row)
        basic_pay == RatMul(Rat(salary, WorkDays * DayHours), Rat(row.total_hours, HoursScale))
        ot_pay == RatMul(Rat(salary, WorkDays * DayHours), Rat(row.total_ot, HoursScale))
    IN  PayOf(basic_pay, ot_pay, RatAdd(basic_pay, ot_pay))

payroll_compute_pay_ot15(row) ==
    LET salary == salary_of(row)
    IN  IF salary <= 0 THEN PayOf(RatZero, RatZero, RatZero)
        ELSE LET hourly_rate == Rat(salary, WorkDays * DayHours)
                 basic_pay == RatMul(hourly_rate, Rat(row.total_hours, HoursScale))
                 ot_pay == RatMul(RatMul(hourly_rate, Rat(3, 2)),
                                  Rat(row.total_ot, HoursScale))
             IN  PayOf(basic_pay, ot_pay, RatAdd(basic_pay, ot_pay))

\* payroll.py compute_pay
payroll_compute_pay(row) ==
    LET salary == salary_of(row)
    IN  IF salary <= 0 THEN PayOf(RatZero, RatZero, RatZero)
        ELSE LET hourly_rate == Rat(salary, WorkDays * DayHours)
                 basic_hours == Rat(row.total_hours, HoursScale)
                 ot_hours == Rat(row.total_ot, HoursScale)
                 basic_pay == RatMul(hourly_rate, basic_hours)
                 ot_pay == RatMul(hourly_rate, ot_hours)
             IN  PayOf(basic_pay, ot_pay, RatAdd(basic_pay, ot_pay))

\* attendance.py compute_pay
attendance_compute_pay(row) ==
    LET salary == salary_of(row)
    IN  IF salary <= 0 THEN PayOf(RatZero, RatZero, RatZero)
        ELSE LET hourly_rate == Rat(salary, WorkDays * DayHours)
                 basic_hours == Rat(row.total_hours, HoursScale)
                 ot_hours == Rat(row.total_ot, HoursScale)
                 basic_pay == RatMul(hourly_rate, basic_hours)
                 ot_pay == RatMul(hourly_rate, ot_hours)
             IN  PayOf(basic_pay, ot_pay, RatAdd(basic_pay, ot_pay))

\* invoices.py compute_row_pay
compute_row_pay(row) ==
    LET salary == salary_of(row)
    IN  IF salary <= 0 THEN PayOf(RatZero, RatZero, RatZero)
        ELSE LET hourly_rate == Rat(salary, WorkDays * DayHours)
                 basic_hours == Rat(row.total_hours, HoursScale)
                 ot_hours == Rat(row.total_ot, HoursScale)
                 basic_pay == RatMul(hourly_rate, basic_hours)
                 ot_pay == RatMul(hourly_rate, ot_hours)
             IN  PayOf(basic_pay, ot_pay, RatAdd(basic_pay, ot_pay))

\* Faulty variant of the rounding: the total is the sum of the rounded parts.
pay_columns_sum_of_rounded(p) ==
    [Basic_Pay_Est |-> round0(p.basic_pay),
     OT_Pay_Est |-> round0(p.ot_pay),
     Total_Pay_Est |-> round0(p.basic_pay) + round0(p.ot_pay)]

\* basic_pay_list.append(round(b, 0)) ...: the three columns of a row.
pay_columns(p) ==
    [Basic_Pay_Est |-> round0(p.basic_pay),
     OT_Pay_Est |-> round0(p.ot_pay),
     Total_Pay_Est |-> round0(p.total_pay)]

\* ------------------------------------------------------------------------
\* Aggregation queries
\* ------------------------------------------------------------------------
month_start(m) == 2 * m - 1
month_end(m) == 2 * m

\* FROM workers w ... WHERE 1=1 {filter_status}
SelectedWorkers(only_active) ==
    {i \in WorkerIds : only_active => workers[i].status = "Active"}

\* LEFT JOIN attendance a ON w.id = a.worker_id AND a.att_date BETWEEN s AND e,
\* for the workers ids: the joined attendance rows, each as often as stored.
JoinedRows(ids, s, e) ==
    SelectSeq(BagToSeq(attendance),
              LAMBDA r : r.worker_id \in ids /\ s <= r.att_date /\ r.att_date <= e)

\* COUNT(CASE WHEN a.status = st THEN 1 END)
CountStatus(rows, st) == Len(SelectSeq(rows, LAMBDA r : r.status = st))
\* Faulty variant of the hours total: the hours of Present rows only.
SumHoursPresentOnly(rows) ==
    SumSeq([i \in DOMAIN rows |->
              IF rows[i].status = "Present" THEN rows[i].hours_worked ELSE 0])

\* COALESCE(SUM(a.hours_worked), 0), COALESCE(SUM(a.overtime_hours), 0)
SumHours(rows) == SumSeq([i \in DOMAIN rows |-> rows[i].hours_worked])
SumOvertime(rows) == SumSeq([i \in DOMAIN rows |-> rows[i].overtime_hours])

\* GROUP BY w.worker_code, w.full_name, w.position, w.salary
GroupKey(i) ==
    <<workers[i].worker_code, workers[i].full_name, workers[i].position,
      workers[i].salary>>

\* One row of the payroll / monthly-summary query: the group of the key k.
SummaryRow(k, sel, s, e) ==
    LET rows == JoinedRows({i \in sel : GroupKey(i) = k}, s, e)
    IN  [worker_code |-> k[1], full_name |-> k[2], position |-> k[3],
         salary |-> Some(k[4]),
         days_present |-> CountStatus(rows, "Present"),
         days_absent |-> CountStatus(rows, "Absent"),
         days_leave |-> CountStatus(rows, "Leave"),
         total_hours |-> SumHours(rows),
         total_ot |-> SumOvertime(rows)]

\* ORDER BY w.worker_code: rows of equal code in any order.
RowCodeLeq(a, b) == a.worker_code <= b.worker_code

\* The result sets the payroll / monthly-summary query may deliver.
SummaryQuery(s, e, only_active) ==
    LET sel == SelectedWorkers(only_active)
    IN  Orderings({SummaryRow(GroupKey(i), sel, s, e) : i \in sel}, RowCodeLeq)

\* df[...] = ...: the query row with its three pay columns.
WithPay(row, p) ==
    [worker_code |-> row.worker_code, full_name |-> row.full_name,
     position |-> row.position, salary |-> row.salary,
     days_present |-> row.days_present, days_absent |-> row.days_absent,
     days_leave |-> row.days_leave,
     total_hours |-> row.total_hours, total_ot |-> row.total_ot,
     Basic_Pay_Est |-> pay_columns(p).Basic_Pay_Est,
     OT_Pay_Est |-> pay_columns(p).OT_Pay_Est,
     Total_Pay_Est |-> pay_columns(p).Total_Pay_Est]

Report(page, kind, s, e, only_active, rows) ==
    [page |-> page, kind |-> kind, start |-> s, end |-> e,
     only_active |-> only_active, rows |-> rows]

\* What the payroll page shows for the query result rows.
PayrollReport(ms, me, only_active, rows) ==
    IF rows = <<>>
    THEN Report("payroll", "info", ms, me, only_active, <<>>)
    ELSE Report("payroll", "table", ms, me, only_active,
                [i \in DOMAIN rows |->
                    WithPay(rows[i], payroll_compute_pay(rows[i]))])

\* Payroll page.
PayrollRender(month, only_active, rows) ==
    /\ out = NoOut
    /\ rows \in SummaryQuery(month_start(month), month_end(month), only_active)
    /\ out' = PayrollReport(month_start(month), month_end(month), only_active, rows)
    /\ UNCHANGED <<workers, attendance, work_orders, fleet_timesheet, payIn, payOut, aux, more>>

\* Attendance page, tab "Monthly Summary"; the page stops with a warning
\* when there is no active worker.
MonthlySummaryRender(month, show_only_active, rows) ==
    /\ out = NoOut
    /\ rows \in SummaryQuery(month_start(month), month_end(month), show_only_active)
    /\ out' = IF ActiveIds = {}
              THEN Report("attendance", "warning", month_start(month),
                          month_end(month), show_only_active, <<>>)
              ELSE IF rows = <<>>
              THEN Report("attendance", "info", month_start(month),
                          month_end(month), show_only_active, <<>>)
              ELSE Report("attendance", "table", month_start(month),
                          month_end(month), show_only_active,
                          [i \in DOMAIN rows |->
                              WithPay(rows[i], attendance_compute_pay(rows[i]))])
    /\ UNCHANGED <<workers, attendance, work_orders, fleet_timesheet, payIn, payOut, aux, more>>

\* invoices.py compute_labour_total: the query has no day counts and always
\* selects the active workers.
LabourRow(row, p) ==
    [worker_code |-> row.worker_code, full_name |-> row.full_name,
     position |-> row.position, salary |-> row.salary,
     total_hours |-> row.total_hours, total_ot |-> row.total_ot,
     Basic_Pay_Est |-> pay_columns(p).Basic_Pay_Est,
     OT_Pay_Est |-> pay_columns(p).OT_Pay_Est,
     Total_Pay_Est |-> pay_columns(p).Total_Pay_Est]

compute_labour_total(ms, me, rows) ==
    LET df == [i \in DOMAIN rows |-> LabourRow(rows[i], compute_row_pay(rows[i]))]
    IN  [labour_total |-> SumSeq([i \in DOMAIN df |-> df[i].Total_Pay_Est]),
         df |-> df]

\* What the invoice page shows of compute_labour_total.
InvoiceReport(ms, me, rows) ==
    LET r == compute_labour_total(ms, me, rows)
    IN  [page |-> "invoices",
         kind |-> IF r.df = <<>> THEN "info" ELSE "table",
         start |-> ms, end |-> me,
         only_active |-> TRUE, rows |-> r.df,
         labour_total |-> r.labour_total]

\* Monthly invoice page: "Labour details".
InvoiceRender(month, rows) ==
    /\ out = NoOut
    /\ rows \in SummaryQuery(month_start(month), month_end(month), TRUE)
    /\ out' = InvoiceReport(month_start(month), month_end(month), rows)
    /\ UNCHANGED <<workers, attendance, work_orders, fleet_timesheet, payIn, payOut, aux, more>>

\* ------------------------------------------------------------------------
\* Worker KPI page
\* ------------------------------------------------------------------------
RatClamp(x) ==
    IF RatLeq(x, RatZero) THEN RatZero
    ELSE IF RatLeq(Rat(100, 1), x) THEN Rat(100, 1) ELSE x

\* Faulty variant of calc_attendance_rate: the share of the 26 working days.
calc_attendance_rate_of_month(days_present, days_absent) ==
    Rat(days_present * 100, WorkDays)

\* calc_attendance_rate
calc_attendance_rate(days_present, days_absent) ==
    LET denom == days_present + days_absent
    IN  IF denom <= 0 THEN RatZero ELSE Rat(days_present * 100, denom)

\* calc_wo_close_rate
calc_wo_close_rate(wo_total, wo_closed) ==
    IF wo_total <= 0 THEN RatZero ELSE Rat(wo_closed * 100, wo_total)

\* The scoring with other caps, other weights (in tenths) or without the
\* limits: the shape of the faulty variants below.
ScoresWith(att_pct, total_ot, wo_pct, fleet_hours, ot_cap, fleet_cap, w_att, w_rest, limited) ==
    LET lim(x, cap) == IF limited THEN Min(x, cap * HoursScale) ELSE x
        cl(x) == IF limited THEN RatClamp(x) ELSE x
        a == cl(att_pct)
        o == cl(Rat(lim(total_ot, ot_cap) * 100, ot_cap * HoursScale))
        w == cl(wo_pct)
        f == cl(Rat(lim(fleet_hours, fleet_cap) * 100, fleet_cap * HoursScale))
        kpi == RatAdd(RatAdd(RatMul(a, Rat(w_att, 10)), RatMul(o, Rat(w_rest, 10))),
                      RatAdd(RatMul(w, Rat(w_rest, 10)), RatMul(f, Rat(w_rest, 10))))
    IN  [att_score |-> a, ot_score |-> o, wo_score |-> w, fleet_score |-> f,
         kpi_score |-> round0(RatScale(10, kpi))]

\* Faulty variant of calc_scores: the two caps exchanged.
calc_scores_caps_exchanged(attendance_pct, total_ot, wo_close_pct, fleet_hours) ==
    ScoresWith(attendance_pct, total_ot, wo_close_pct, fleet_hours,
               FleetCap, OtCap, 4, 2, TRUE)

\* Faulty variant of calc_scores: attendance weighs 0.2 like the others.
calc_scores_equal_weights(attendance_pct, total_ot, wo_close_pct, fleet_hours) ==
    ScoresWith(attendance_pct, total_ot, wo_close_pct, fleet_hours,
               OtCap, FleetCap, 2, 2, TRUE)

\* Faulty variant of calc_scores: neither min(.., cap) nor the clamp.
calc_scores_unlimited(attendance_pct, total_ot, wo_close_pct, fleet_hours) ==
    ScoresWith(attendance_pct, total_ot, wo_close_pct, fleet_hours,
               OtCap, FleetCap, 4, 2, FALSE)

\* calc_scores; hours are in hundredths, kpi_score is in tenths
\* (round(kpi, 1)).
calc_scores(attendance_pct, total_ot, wo_close_pct, fleet_hours) ==
    LET ot_score == IF total_ot > 0
                    THEN Rat(Min(total_ot, OtCap * HoursScale) * 100,
                             OtCap * HoursScale)
                    ELSE RatZero
        fleet_score == IF fleet_hours > 0
                       THEN Rat(Min(fleet_hours, FleetCap * HoursScale) * 100,
                                FleetCap * HoursScale)
                       ELSE RatZero
        a == RatClamp(attendance_pct)
        o == RatClamp(ot_score)
        w == RatClamp(wo_close_pct)
        f == RatClamp(fleet_score)
        kpi == RatAdd(RatAdd(RatMul(a, Rat(4, 10)), RatMul(o, Rat(2, 10))),
                      RatAdd(RatMul(w, Rat(2, 10)), RatMul(f, Rat(2, 10))))
    IN  [att_score |-> a, ot_score |-> o, wo_score |-> w, fleet_score |-> f,
         kpi_score |-> round0(RatScale(10, kpi))]

\* Faulty variant of the work-order selection: the period is not applied.
WorkOrdersOfAnyDate(i, s, e) ==
    SelectSeq(BagToSeq(work_orders), LAMBDA r : r.assigned_worker_id = i)

\* _load_work_orders, _load_fleet: the rows of one worker in the period.
WorkOrdersOf(i, s, e) ==
    SelectSeq(BagToSeq(work_orders),
              LAMBDA r : r.assigned_worker_id = i /\ s <= r.requested_at
                         /\ r.requested_at <= e)
FleetOf(i, s, e) ==
    SelectSeq(BagToSeq(fleet_timesheet),
              LAMBDA r : r.worker_id = i /\ s <= r.used_date /\ r.used_date <= e)

\* One row of agg: the group of worker i (the grouping key starts with
\* worker_id).
KpiRow(i, s, e) ==
    LET rows == JoinedRows({i}, s, e)
        wo == WorkOrdersOf(i, s, e)
        fl == FleetOf(i, s, e)
        days_present == CountStatus(rows, "Present")
        days_absent == CountStatus(rows, "Absent")
        attendance_pct == calc_attendance_rate(days_present, days_absent)
        wo_total == Len(wo)
        wo_closed == Len(SelectSeq(wo, LAMBDA r : r.status \in {"Completed", "Closed"}))
        wo_close_pct == calc_wo_close_rate(wo_total, wo_closed)
        fleet_hours == SumSeq([j \in DOMAIN fl |-> fl[j].hours_used])
        sc == calc_scores(attendance_pct, SumOvertime(rows), wo_close_pct, fleet_hours)
    IN  [worker_id |-> i, worker_code |-> workers[i].worker_code,
         full_name |-> workers[i].full_name, position |-> workers[i].position,
         salary |-> Some(workers[i].salary),
         days_recorded |-> Cardinality({rows[j].att_date : j \in DOMAIN rows}),
         days_present |-> days_present, days_absent |-> days_absent,
         days_leave |-> CountStatus(rows, "Leave"),
         total_hours |-> SumHours(rows), total_ot |-> SumOvertime(rows),
         attendance_pct |-> attendance_pct,
         wo_total |-> wo_total, wo_closed |-> wo_closed,
         wo_close_pct |-> wo_close_pct, fleet_hours |-> fleet_hours,
         att_score |-> sc.att_score, ot_score |-> sc.ot_score,
         wo_score |-> sc.wo_score, fleet_score |-> sc.fleet_score,
         kpi_score |-> sc.kpi_score]

\* Faulty variant of the KPI sort: ascending.
KpiScoreAscending(a, b) == a.kpi_score <= b.kpi_score

\* agg.sort_values("kpi_score", ascending=False): rows of equal score in any
\* order (the sort is not stable).
KpiScoreGeq(a, b) == a.kpi_score >= b.kpi_score

\* _build_kpi_df: the frames it may return.
build_kpi_df(s, e) ==
    Orderings({KpiRow(i, s, e) : i \in ActiveIds}, KpiScoreGeq)

\* What the KPI page shows once df_kpi is loaded; fetched tells that the
\* three loaders were called.
KpiLoaded(start_date, end_date, df_kpi) ==
    [page |-> "kpi", kind |-> IF df_kpi = <<>> THEN "info" ELSE "table",
     start |-> start_date, end |-> end_date, only_active |-> TRUE,
     rows |-> df_kpi, fetched |-> TRUE]

\* Faulty variant of the KPI page: the dates are not compared.
KpiShownUnchecked(start_date, end_date, df_kpi) ==
    KpiLoaded(start_date, end_date, df_kpi)

\* if start_date > end_date: st.error(..); return -- before _build_kpi_df.
KpiShown(start_date, end_date, df_kpi) ==
    IF start_date > end_date
    THEN [page |-> "kpi", kind |-> "error", start |-> start_date,
          end |-> end_date, only_active |-> TRUE, rows |-> <<>>,
          fetched |-> FALSE]
    ELSE KpiLoaded(start_date, end_date, df_kpi)

\* Worker KPI page.
KpiRender(start_date, end_date, df_kpi) ==
    /\ out = NoOut
    /\ df_kpi \in build_kpi_df(start_date, end_date)
    /\ out' = KpiShown(start_date, end_date, df_kpi)
    /\ UNCHANGED <<workers, attendance, work_orders, fleet_timesheet, payIn, payOut, aux, more>>

\* ------------------------------------------------------------------------
\* Salary slip page
\* ------------------------------------------------------------------------
\* _load_attendance(worker_id, year, month): the rows of the worker in the
\* month.
slip_load_attendance(worker_id, month) ==
    JoinedRows({worker_id}, month_start(month), month_end(month))

\* Faulty variant of _generate_slip: the columns of df_att are read without
\* asking whether the frame is empty; a frame made of no rows has no
\* columns, and reading one raises KeyError.
generate_slip_unguarded(worker_id, month, df_att) ==
    [page |-> "salary_slips",
     kind |-> IF df_att = <<>> THEN "raised" ELSE "slip",
     start |-> month_start(month), end |-> month_end(month),
     worker_id |-> worker_id,
     days_present |-> CountStatus(df_att, "Present"),
     days_absent |-> CountStatus(df_att, "Absent"),
     days_leave |-> CountStatus(df_att, "Leave"),
     total_hours |-> SumHours(df_att), total_ot |-> SumOvertime(df_att),
     basic |-> workers[worker_id].salary,
     ot_amount |-> Rat(SumOvertime(df_att) * workers[worker_id].salary,
                       WorkDays * DayHours * HoursScale),
     gross |-> RatAdd(Rat(workers[worker_id].salary, 1),
                      Rat(SumOvertime(df_att) * workers[worker_id].salary,
                          WorkDays * DayHours * HoursScale))]

\* _generate_slip: the figures printed on the slip.  Each attendance figure
\* is 0 when df_att is empty; basic is the monthly salary, the overtime
\* rate is basic / 26 / 8 (0 unless basic > 0) and gross = basic + overtime
\* amount.
generate_slip(worker_id, month, df_att) ==
    LET days_present == IF df_att # <<>> THEN CountStatus(df_att, "Present") ELSE 0
        days_absent == IF df_att # <<>> THEN CountStatus(df_att, "Absent") ELSE 0
        days_leave == IF df_att # <<>> THEN CountStatus(df_att, "Leave") ELSE 0
        total_hours == IF df_att # <<>> THEN SumHours(df_att) ELSE 0
        total_ot == IF df_att # <<>> THEN SumOvertime(df_att) ELSE 0
        basic == workers[worker_id].salary
        ot_rate == IF basic > 0 THEN Rat(basic, WorkDays * DayHours) ELSE RatZero
        ot_amount == RatMul(Rat(total_ot, HoursScale), ot_rate)
        gross == RatAdd(Rat(basic, 1), ot_amount)
    IN  [page |-> "salary_slips", kind |-> "slip",
         start |-> month_start(month), end |-> month_end(month),
         worker_id |-> worker_id,
         days_present |-> days_present, days_absent |-> days_absent,
         days_leave |-> days_leave,
         total_hours |-> total_hours, total_ot |-> total_ot,
         basic |-> basic, ot_amount |-> ot_amount, gross |-> gross]

\* Salary slip page: without active workers the page says so and stops;
\* otherwise "Generate Salary Slip PDF" for the selected worker and month.
SalarySlipRender(sel_label, worker_id, month) ==
    /\ out = NoOut
    /\ IF ActiveIds = {}
       THEN out' = [page |-> "salary_slips", kind |-> "info",
                    start |-> month_start(month), end |-> month_end(month)]
       ELSE /\ sel_label \in worker_labels
            /\ worker_id \in worker_id_map(sel_label)
            /\ out' = generate_slip(worker_id, month,
                                    slip_load_attendance(worker_id, month))
    /\ UNCHANGED <<workers, attendance, work_orders, fleet_timesheet, payIn, payOut, aux, more>>

\* The session moves on to another page: what was on display is replaced.
LeavePage ==
    /\ out # NoOut
    /\ out' = NoOut
    /\ UNCHANGED <<workers, attendance, work_orders, fleet_timesheet, payIn, payOut, aux, more>>

\* ------------------------------------------------------------------------
\* Specification of the store and its forms
\* ------------------------------------------------------------------------
Init ==
    /\ workers = <<>>
    /\ attendance = EmptyBag
    /\ work_orders = EmptyBag
    /\ fleet_timesheet = EmptyBag
    /\ out = NoOut
    /\ payIn = NoRow
    /\ payOut = NoPay
    /\ AuxIdle

AddWorker ==
    \E w \in WorkerInputs : out = NoOut /\ SaveNewWorker(w)

DailyEntry ==
    /\ out = NoOut
    /\ \E l \in worker_labels, w \in ActiveIds, d \in Dates,
       st \in status_options, i \in InTimes, o \in OutTimes, readOk \in BOOLEAN :
            DailyEntrySave(l, w, d, st, i, o, readOk)

QuickAttendance ==
    /\ out = NoOut
    /\ \E l \in worker_labels, w \in ActiveIds, d \in Dates,
       i \in InTimes, o \in OutTimes, readOk \in BOOLEAN :
            QuickAttendanceSave(l, w, d, i, o, readOk)

Payroll ==
    /\ out = NoOut
    /\ \E m \in Months, only_active \in BOOLEAN :
        \E rows \in SummaryQuery(month_start(m), month_end(m), only_active) :
            PayrollRender(m, only_active, rows)

MonthlySummary ==
    /\ out = NoOut
    /\ \E m \in Months, only_active \in BOOLEAN :
        \E rows \in SummaryQuery(month_start(m), month_end(m), only_active) :
            MonthlySummaryRender(m, only_active, rows)

Invoice ==
    /\ out = NoOut
    /\ \E m \in Months :
        \E rows \in SummaryQuery(month_start(m), month_end(m), TRUE) :
            InvoiceRender(m, rows)

Kpi ==
    /\ out = NoOut
    /\ \E s \in Dates, e \in Dates :
        \E df \in build_kpi_df(s, e) : KpiRender(s, e, df)

SalarySlip ==
    /\ out = NoOut
    /\ \E m \in Months :
          \/ ActiveIds = {} /\ SalarySlipRender(<<>>, 0, m)
          \/ \E l \in worker_labels : \E w \in worker_id_map(l) :
                SalarySlipRender(l, w, m)

Next ==
    \/ AddWorker
    \/ DailyEntry
    \/ QuickAttendance
    \/ Payroll
    \/ MonthlySummary
    \/ Invoice
    \/ Kpi
    \/ SalarySlip
    \/ LeavePage

Spec == Init /\ [][Next]_vars

\* ------------------------------------------------------------------------
\* Specification of the aggregation over any store content: attendance rows
\* are written to the store directly, with any status and any stored hours.
\* ------------------------------------------------------------------------
\* <<status, hours_worked, overtime_hours>> of a stored row.
StoredValues ==
    { <<"Present", 900, 100>>, <<"Absent", 0, 0>>, <<"Absent", 800, 200>>,
      <<"Leave", 850, 0>>, <<"Off", 0, 150>> }

StoreAttendance(w, d, v) ==
    /\ out = NoOut
    /\ StoredRows < MaxRows
    /\ attendance' = attendance (+) SetToBag({AttRow(w, d, v[1], v[2], v[3])})
    /\ UNCHANGED <<workers, work_orders, fleet_timesheet, out, payIn, payOut, aux, more>>

StoreWrite ==
    \E w \in WorkerIds, d \in Dates, v \in StoredValues : StoreAttendance(w, d, v)

NextStore ==
    \/ AddWorker
    \/ StoreWrite
    \/ Payroll
    \/ MonthlySummary
    \/ Invoice
    \/ LeavePage

SpecStore == Init /\ [][NextStore]_vars

\* ------------------------------------------------------------------------
\* Specification of attendance saves by concurrent sessions.  A save is two
\* statements on two connections, the existence read and the write, and the
\* statements of other sessions may run between them.
\* ------------------------------------------------------------------------
\* existing_rows = fetch_all("SELECT * FROM attendance WHERE worker_id=%s AND
\* att_date=%s"): the session keeps whether a row was found and the row it is
\* about to write.
ReadExisting(s, row, readOk) ==
    /\ sessions[s] = Idle
    /\ sessions' = [sessions EXCEPT ![s] =
           [pc |-> "write", row |-> row,
            found |-> ExistingRows(row.worker_id, row.att_date, readOk) # {}]]
    /\ UNCHANGED <<workers, attendance, work_orders, fleet_timesheet, out,
                   payIn, payOut, kpiIn, kpiOut, dbOut, again, more>>

\* The statuses the concurrent sessions choose from.
RaceStatuses == {"Present", "Leave"}

\* Daily entry: the read of the script run in which the button is pressed.
DailyEntryRead(s) ==
    \E l \in worker_labels, d \in Dates, st \in RaceStatuses,
       i \in InTimes, o \in OutTimes, readOk \in BOOLEAN :
        \E w \in worker_id_map(l) :
            ReadExisting(s, AttRow(w, d, st, hours_to_save(st, i, o),
                                   ot_to_save(st, i, o)), readOk)

\* Supervisor quick attendance: the read inside the button handler.
QuickAttendanceRead(s) ==
    /\ \E sup \in WorkerIds : IsSupervisor(sup)
    /\ \E l \in worker_labels, d \in Dates, i \in InTimes, o \in OutTimes,
          readOk \in BOOLEAN :
           \E w \in worker_id_map(l) :
               ReadExisting(s, AttRow(w, d, "Present", hours_worked(i, o),
                                      overtime_hours(i, o)), readOk)

\* if existing: UPDATE attendance SET ... WHERE id = existing["id"], else
\* INSERT INTO attendance.  The row with that id is still stored (nothing
\* deletes attendance rows) and still has the worker and date of the read.
SessionWrite(s) ==
    /\ sessions[s].pc = "write"
    /\ LET row == sessions[s].row
           same == {e \in BagToSet(attendance) :
                      e.worker_id = row.worker_id /\ e.att_date = row.att_date}
       IN  IF sessions[s].found
           THEN \E e \in same :
                   attendance' = (attendance (-) SetToBag({e})) (+) SetToBag({row})
           ELSE /\ StoredRows < MaxRows
                /\ attendance' = attendance (+) SetToBag({row})
    /\ sessions' = [sessions EXCEPT ![s] = Idle]
    /\ UNCHANGED <<workers, work_orders, fleet_timesheet, out,
                   payIn, payOut, kpiIn, kpiOut, dbOut, again, more>>

\* The statement fails (execute returns False): the page shows an error and
\* the table is as it was.
SessionWriteFails(s) ==
    /\ sessions[s].pc = "write"
    /\ sessions' = [sessions EXCEPT ![s] = Idle]
    /\ UNCHANGED <<workers, attendance, work_orders, fleet_timesheet, out,
                   payIn, payOut, kpiIn, kpiOut, dbOut, again, more>>

RaceAddWorker == AddWorker
RaceDailyRead == \E s \in Sessions : DailyEntryRead(s)
RaceQuickRead == \E s \in Sessions : QuickAttendanceRead(s)
RaceWrite == \E s \in Sessions : SessionWrite(s)
RaceWriteFails == \E s \in Sessions : SessionWriteFails(s)

NextRace ==
    \/ RaceAddWorker
    \/ RaceDailyRead
    \/ RaceQuickRead
    \/ RaceWrite
    \/ RaceWriteFails

SpecRace == Init /\ [][NextRace]_vars

\* ------------------------------------------------------------------------
\* Specification of the work orders the KPI page reads.  The supervisor form
\* opens them; nothing in the application changes their status, which is
\* maintained in the store directly.
\* ------------------------------------------------------------------------
WorkOrderStatuses == {"Open", "Completed", "Closed"}

\* Supervisor Mobile page, tab "Work Order", button "Create Work Order" with
\* a worker assigned: INSERT INTO work_orders, status 'Open', requested_at
\* the requested date at 09:00.
CreateWorkOrder(sel_worker_label, assigned_worker_id, req_date) ==
    /\ out = NoOut
    /\ \E s \in WorkerIds : IsSupervisor(s)
    /\ sel_worker_label \in worker_labels
    /\ assigned_worker_id \in worker_id_map(sel_worker_label)
    /\ StoredRows < MaxRows
    /\ work_orders' = work_orders (+)
          SetToBag({[assigned_worker_id |-> assigned_worker_id,
                     requested_at |-> req_date, status |-> "Open"]})
    /\ UNCHANGED <<workers, attendance, fleet_timesheet, out, payIn, payOut, aux, more>>

\* The status of a stored work order is changed in the store.
StoreWorkOrderStatus(e, st) ==
    /\ out = NoOut
    /\ e \in BagToSet(work_orders)
    /\ st # e.status
    /\ work_orders' = (work_orders (-) SetToBag({e}))
                        (+) SetToBag({[e EXCEPT !.status = st]})
    /\ UNCHANGED <<workers, attendance, fleet_timesheet, out, payIn, payOut, aux, more>>

WorkOrderCreate ==
    \E l \in worker_labels, d \in Dates :
        \E w \in worker_id_map(l) : CreateWorkOrder(l, w, d)

WorkOrderStatus ==
    \E e \in BagToSet(work_orders), st \in WorkOrderStatuses :
        StoreWorkOrderStatus(e, st)

NextWorkOrders ==
    \/ AddWorker
    \/ WorkOrderCreate
    \/ WorkOrderStatus
    \/ Kpi
    \/ LeavePage

SpecWorkOrders == Init /\ [][NextWorkOrders]_vars

\* ------------------------------------------------------------------------
\* Specification of a labour-totals computation made twice: the page on
\* display is computed again for the same period and filter while the store
\* is as it was.
\* ------------------------------------------------------------------------
PayrollAgain ==
    /\ out.page = "payroll"
    /\ again = NoOut
    /\ \E rows \in SummaryQuery(out.start, out.end, out.only_active) :
          again' = PayrollReport(out.start, out.end, out.only_active, rows)
    /\ UNCHANGED <<workers, attendance, work_orders, fleet_timesheet, out,
                   payIn, payOut, sessions, kpiIn, kpiOut, dbOut, more>>

InvoiceAgain ==
    /\ out.page = "invoices"
    /\ again = NoOut
    /\ \E rows \in SummaryQuery(out.start, out.end, TRUE) :
          again' = InvoiceReport(out.start, out.end, rows)
    /\ UNCHANGED <<workers, attendance, work_orders, fleet_timesheet, out,
                   payIn, payOut, sessions, kpiIn, kpiOut, dbOut, more>>

LeaveBoth ==
    /\ out # NoOut
    /\ out' = NoOut
    /\ again' = NoOut
    /\ UNCHANGED <<workers, attendance, work_orders, fleet_timesheet,
                   payIn, payOut, sessions, kpiIn, kpiOut, dbOut, more>>

NextTwice ==
    \/ AddWorker
    \/ DailyEntry
    \/ Payroll
    \/ Invoice
    \/ PayrollAgain
    \/ InvoiceAgain
    \/ LeaveBoth

SpecTwice == Init /\ [][NextTwice]_vars

\* ------------------------------------------------------------------------
\* Claims about repeated computations (checked under SpecTwice)
\* ------------------------------------------------------------------------
\* C17: computing labour totals twice over the same roster rows, attendance
\* rows and period yields the same output rows in the same order.
C17_SameOutputTwice == again # NoOut => again = out

\* C17, for rosters in which no two selected workers that come out as
\* different rows have the same worker code.
C17_WithDistinctCodes ==
    again # NoOut =>
        \/ \E i, j \in SelectedWorkers(out.only_active) :
              GroupKey(i) # GroupKey(j)
              /\ workers[i].worker_code = workers[j].worker_code
        \/ again = out

\* ------------------------------------------------------------------------
\* Specification of report requests whose fetch may fail: the store is
\* unreachable or the query raises, and fetch_all delivers an empty list.
\* ------------------------------------------------------------------------
\* fetch_all: the rows of the query, or [] when connecting or the query
\* failed.
fetch_all(fetchOk, rows) == IF fetchOk THEN rows ELSE <<>>

\* Payroll page; failed is not shown, it records what happened to the fetch.
PayrollFetch ==
    /\ out = NoOut
    /\ \E m \in Months, only_active \in BOOLEAN, fetchOk \in BOOLEAN :
        \E rows \in SummaryQuery(month_start(m), month_end(m), only_active) :
            out' = [failed |-> ~fetchOk] @@
                   PayrollReport(month_start(m), month_end(m), only_active,
                                 fetch_all(fetchOk, rows))
    /\ UNCHANGED <<workers, attendance, work_orders, fleet_timesheet, payIn, payOut, aux, more>>

\* Worker KPI page, dates in order; df_att is empty when _load_attendance
\* got [] from fetch_all, and _build_kpi_df then returns an empty frame.
KpiFetch ==
    /\ out = NoOut
    /\ \E s \in Dates, e \in Dates, fetchOk \in BOOLEAN :
        /\ s <= e
        /\ \E df \in build_kpi_df(s, e) :
              out' = [failed |-> ~fetchOk] @@
                     KpiShown(s, e, IF fetch_all(fetchOk, df) = <<>> THEN <<>> ELSE df)
    /\ UNCHANGED <<workers, attendance, work_orders, fleet_timesheet, payIn, payOut, aux, more>>

NextFetch ==
    \/ AddWorker
    \/ DailyEntry
    \/ PayrollFetch
    \/ KpiFetch
    \/ LeavePage

SpecFetch == Init /\ [][NextFetch]_vars

\* ------------------------------------------------------------------------
\* Claims about failed fetches (checked under SpecFetch)
\* ------------------------------------------------------------------------
\* C21: when the store is unreachable or a fetch fails, what the payroll or
\* KPI page shows is not what it shows for a reachable store without
\* activity in the period: a failed fetch is never shown as "no data for
\* this period".
C21_FailureNotShownAsNoData ==
    out # NoOut /\ out.failed => out.kind # "info"

\* ------------------------------------------------------------------------
\* Claims about concurrent attendance saves
\* ------------------------------------------------------------------------
RowsFor(w, d) ==
    BagCardinality([e \in {x \in BagToSet(attendance) :
                             x.worker_id = w /\ x.att_date = d}
                    |-> attendance[e]])

\* C11: after any interleaving of attendance saves by any number of sessions
\* of the two forms, the attendance table holds at most one row per worker
\* and date, also when an existence read delivered no rows because it failed.
C11_OneRowPerWorkerAndDate ==
    \A w \in WorkerIds, d \in Dates : RowsFor(w, d) <= 1

\* ------------------------------------------------------------------------
\* Claims about the aggregation pages
\* ------------------------------------------------------------------------
PayPages == {"payroll", "attendance", "invoices"}
DayCountPages == {"payroll", "attendance", "kpi"}
IsTable(pages) == out.page \in pages /\ out.kind = "table"
OutRows == {out.rows[j] : j \in DOMAIN out.rows}

\* The workers the request on display selected.
Roster ==
    IF out.page = "kpi" THEN ActiveIds ELSE SelectedWorkers(out.only_active)

\* The output row r carries the identity of worker i.
IsRowOf(i, r) ==
    IF out.page = "kpi" THEN r.worker_id = i
    ELSE /\ r.worker_code = workers[i].worker_code
         /\ r.full_name = workers[i].full_name
         /\ r.position = workers[i].position
         /\ r.salary = Some(workers[i].salary)

\* The stored attendance rows of the workers ids dated within the period on
\* display, both end dates included.
InPeriod(ids) ==
    {x \in BagToSet(attendance) :
        x.worker_id \in ids /\ out.start <= x.att_date /\ x.att_date <= out.end}

\* Sums over a set of stored rows, each row counted as often as it is stored.
RECURSIVE StoredCount(_)
StoredCount(S) ==
    IF S = {} THEN 0
    ELSE LET x == CHOOSE y \in S : TRUE
         IN  CopiesIn(x, attendance) + StoredCount(S \ {x})
RECURSIVE StoredHours(_)
StoredHours(S) ==
    IF S = {} THEN 0
    ELSE LET x == CHOOSE y \in S : TRUE
         IN  CopiesIn(x, attendance) * x.hours_worked + StoredHours(S \ {x})
RECURSIVE StoredOvertime(_)
StoredOvertime(S) ==
    IF S = {} THEN 0
    ELSE LET x == CHOOSE y \in S : TRUE
         IN  CopiesIn(x, attendance) * x.overtime_hours + StoredOvertime(S \ {x})
WithStatus(S, st) == {x \in S : x.status = st}

\* No two workers of the roster agree on code, name, position and salary.
DistinctKeys == \A i, j \in Roster : i # j => GroupKey(i) # GroupKey(j)

ZeroDays(r) == r.days_present = 0 /\ r.days_absent = 0 /\ r.days_leave = 0
ZeroPay(r) == r.Basic_Pay_Est = 0 /\ r.OT_Pay_Est = 0 /\ r.Total_Pay_Est = 0

\* C4: a worker of the roster with no attendance row in the period still has
\* a row in the output, with all day counts 0, both hour totals 0 and (on the
\* pages that report pay) all three pay figures 0.
C4_NoAttendanceStillListed ==
    IsTable(PayPages \cup {"kpi"}) =>
        \A i \in Roster :
            InPeriod({i}) = {} =>
                \E r \in OutRows :
                    /\ IsRowOf(i, r)
                    /\ r.total_hours = 0 /\ r.total_ot = 0
                    /\ out.page \in DayCountPages => ZeroDays(r)
                    /\ out.page \in PayPages => ZeroPay(r)

\* C4, for rosters whose workers differ in code, name, position or salary.
C4_WithDistinctKeys == out # NoOut /\ out.kind = "table" /\ DistinctKeys => C4_NoAttendanceStillListed

\* C5: the labour-totals output has exactly one row per selected worker and
\* each row aggregates the attendance rows of that worker only, also when
\* two workers share code, name, position and salary.
C5_OneRowPerWorker ==
    IsTable(PayPages) =>
        /\ Len(out.rows) = Cardinality(Roster)
        /\ \A i \in Roster :
              Cardinality({j \in DOMAIN out.rows : IsRowOf(i, out.rows[j])}) = 1
        /\ \A j \in DOMAIN out.rows :
              \E i \in Roster :
                  /\ IsRowOf(i, out.rows[j])
                  /\ out.rows[j].total_hours = StoredHours(InPeriod({i}))
                  /\ out.rows[j].total_ot = StoredOvertime(InPeriod({i}))

C5_WithDistinctKeys == out # NoOut /\ out.kind = "table" /\ DistinctKeys => C5_OneRowPerWorker

SortedByCode ==
    \A j, k \in DOMAIN out.rows :
        j < k => out.rows[j].worker_code <= out.rows[k].worker_code
SortedByScoreDescending ==
    \A j, k \in DOMAIN out.rows :
        j < k => out.rows[j].kpi_score >= out.rows[k].kpi_score

\* C6 as stated: the rows of every aggregation, the worker-KPI table
\* included, are ordered by worker code ascending.
C6_EveryTableByCode == IsTable(PayPages \cup {"kpi"}) => SortedByCode

\* C6 as amended: the rows of the payroll page, the monthly attendance
\* summary and the invoice labour details are ordered by worker code
\* ascending; the rows of the worker-KPI table are ordered by KPI score
\* descending.
C6_OrderPerPage ==
    /\ IsTable(PayPages) => SortedByCode
    /\ IsTable({"kpi"}) => SortedByScoreDescending

C6_Witness ==
    /\ IsTable({"kpi"})
    /\ Len(out.rows) = 2
    /\ out.rows[1].worker_code > out.rows[2].worker_code
    /\ out.rows[1].kpi_score > out.rows[2].kpi_score

\* C7: for each worker, the days present, absent and on leave are the numbers
\* of that worker's attendance rows dated within the period, both end dates
\* included, whose status is Present, Absent and Leave; rows with status Off
\* and rows dated outside the period are counted in none of the three.
C7_DayCountsPerWorker ==
    IsTable(DayCountPages) =>
        \A i \in Roster :
            \E r \in OutRows :
                /\ IsRowOf(i, r)
                /\ r.days_present = StoredCount(WithStatus(InPeriod({i}), "Present"))
                /\ r.days_absent = StoredCount(WithStatus(InPeriod({i}), "Absent"))
                /\ r.days_leave = StoredCount(WithStatus(InPeriod({i}), "Leave"))

C7_WithDistinctKeys == out # NoOut /\ out.kind = "table" /\ DistinctKeys => C7_DayCountsPerWorker

\* C8: for each worker, the total hours and total overtime hours are the sums
\* of the stored hours_worked and overtime_hours over all attendance rows of
\* the worker in the period, whatever the status of a row.
C8_RawTotalsPerWorker ==
    IsTable(PayPages \cup {"kpi"}) =>
        \A i \in Roster :
            \E r \in OutRows :
                /\ IsRowOf(i, r)
                /\ r.total_hours = StoredHours(InPeriod({i}))
                /\ r.total_ot = StoredOvertime(InPeriod({i}))

C8_WithDistinctKeys == out # NoOut /\ out.kind = "table" /\ DistinctKeys => C8_RawTotalsPerWorker

\* The workers of the roster an output row of a pay page stands for.
Members(r) == {i \in Roster : IsRowOf(i, r)}
PayDen == WorkDays * DayHours * HoursScale

\* C9 as stated: the pay figures of a row count the hours and overtime of
\* Present rows only; a row whose status is not Present adds nothing to
\* basic pay, overtime pay and total pay, whatever hours it stores.
C9_PayFromPresentRowsOnly ==
    IsTable(PayPages) =>
        \A r \in OutRows :
            LET present == WithStatus(InPeriod(Members(r)), "Present")
                sal == r.salary[1]
            IN  sal > 0 =>
                  /\ r.Basic_Pay_Est = round0(Rat(sal * StoredHours(present), PayDen))
                  /\ r.OT_Pay_Est = round0(Rat(sal * StoredOvertime(present), PayDen))
                  /\ r.Total_Pay_Est =
                        round0(Rat(sal * (StoredHours(present) + StoredOvertime(present)),
                                   PayDen))

\* C9 as amended: the pay figures of a row are computed from the raw totals
\* of the row: every attendance row in the period that the output row
\* aggregates adds its stored hours and overtime, whatever its status.
C9_PayFromStoredHours ==
    IsTable(PayPages) =>
        \A r \in OutRows :
            LET all == InPeriod(Members(r))
                sal == r.salary[1]
            IN  sal > 0 =>
                  /\ r.Basic_Pay_Est = round0(Rat(sal * StoredHours(all), PayDen))
                  /\ r.OT_Pay_Est = round0(Rat(sal * StoredOvertime(all), PayDen))
                  /\ r.Total_Pay_Est =
                        round0(Rat(sal * (StoredHours(all) + StoredOvertime(all)),
                                   PayDen))

\* A pay row that aggregates a Present row and an Absent row storing hours,
\* and pays for both.
C9_Witness ==
    /\ IsTable(PayPages)
    /\ \E r \in OutRows :
          /\ \E x \in InPeriod(Members(r)) : x.status = "Absent" /\ x.hours_worked > 0
          /\ \E x \in InPeriod(Members(r)) : x.status = "Present"
          /\ r.Basic_Pay_Est >
                round0(Rat(r.salary[1]
                             * StoredHours(WithStatus(InPeriod(Members(r)), "Present")),
                           PayDen))

\* ------------------------------------------------------------------------
\* Claims about the attendance forms
\* ------------------------------------------------------------------------
\* C10: starting from an empty attendance table, after any sequence of saves
\* through the daily-entry form and the supervisor quick-attendance form,
\* every stored row whose status is Absent, Leave or Off has hours_worked 0
\* and overtime_hours 0.
C10_NonPresentRowsStoreZero ==
    \A x \in BagToSet(attendance) :
        x.status # "Present" => x.hours_worked = 0 /\ x.overtime_hours = 0

C10_Witness ==
    /\ \E x \in BagToSet(attendance) : x.status \in {"Absent", "Leave", "Off"}
    /\ \E x \in BagToSet(attendance) : x.status = "Present" /\ x.hours_worked > 0

\* ------------------------------------------------------------------------
\* Specification of the pay computation alone: one aggregated row, drawn
\* from a bounded set, is handed to the pay computation of one page and
\* rounded as that page rounds it.
\* ------------------------------------------------------------------------
PaySalaries == {NULL, Some(-208), Some(0), Some(104), Some(208), Some(20800)}
PayHours == {0, 50, 433, 900}
PayOvertime == {0, 50, 125}
\* Scenario A of the specification: salary 416000, 208 hours, no overtime.
ScenarioA == [salary |-> Some(416000), total_hours |-> 208 * HoursScale,
              total_ot |-> 0, month |-> 1]
PayInputs ==
    [salary : PaySalaries, total_hours : PayHours, total_ot : PayOvertime,
     month : Months] \cup {ScenarioA}

PayResult(page, p) ==
    [page |-> page, basic_pay |-> p.basic_pay, ot_pay |-> p.ot_pay,
     total_pay |-> p.total_pay,
     Basic_Pay_Est |-> pay_columns(p).Basic_Pay_Est,
     OT_Pay_Est |-> pay_columns(p).OT_Pay_Est,
     Total_Pay_Est |-> pay_columns(p).Total_Pay_Est]

InitPay ==
    /\ workers = <<>>
    /\ attendance = EmptyBag
    /\ work_orders = EmptyBag
    /\ fleet_timesheet = EmptyBag
    /\ out = NoOut
    /\ payIn \in PayInputs
    /\ payOut = NoPay
    /\ AuxIdle

PayrollPay ==
    /\ payOut = NoPay
    /\ payOut' = PayResult("payroll", payroll_compute_pay(payIn))
    /\ UNCHANGED <<workers, attendance, work_orders, fleet_timesheet, out, payIn, aux, more>>

AttendancePay ==
    /\ payOut = NoPay
    /\ payOut' = PayResult("attendance", attendance_compute_pay(payIn))
    /\ UNCHANGED <<workers, attendance, work_orders, fleet_timesheet, out, payIn, aux, more>>

InvoicePay ==
    /\ payOut = NoPay
    /\ payOut' = PayResult("invoices", compute_row_pay(payIn))
    /\ UNCHANGED <<workers, attendance, work_orders, fleet_timesheet, out, payIn, aux, more>>

NextPay ==
    \/ PayrollPay
    \/ AttendancePay
    \/ InvoicePay

SpecPay == InitPay /\ [][NextPay]_vars

\* ------------------------------------------------------------------------
\* Claims about the pay computation (checked under SpecPay)
\* ------------------------------------------------------------------------
Paid == payOut.page # "none"
SalaryMissingOrNotPositive ==
    payIn.salary = NULL \/ payIn.salary[1] <= 0

\* C1: a worker whose salary is zero, negative or missing gets basic pay,
\* overtime pay and total pay 0 on the payroll page, the monthly attendance
\* summary and the invoice labour total, whatever the hours and overtime.
C1_ZeroPayWithoutSalary ==
    (Paid /\ SalaryMissingOrNotPositive) =>
        /\ payOut.basic_pay = RatZero
        /\ payOut.ot_pay = RatZero
        /\ payOut.total_pay = RatZero
        /\ payOut.Basic_Pay_Est = 0
        /\ payOut.OT_Pay_Est = 0
        /\ payOut.Total_Pay_Est = 0

C1_Witness ==
    /\ payOut.page = "invoices"
    /\ payIn.salary = NULL
    /\ payIn.total_hours > 0
    /\ payIn.total_ot > 0

\* C2: with a salary > 0, basic pay = salary / 208 x total hours, overtime
\* pay = salary / 208 x overtime hours (the same rate, 1.0x) and total pay =
\* basic pay + overtime pay, whatever the period.  Hours are in hundredths,
\* so the products are compared over 208 x 100; Scenario A, whose products
\* exceed the range of machine integers, is compared with its stated figures.
C2_PayFormula ==
    /\ (Paid /\ ~SalaryMissingOrNotPositive /\ payIn # ScenarioA) =>
          /\ payOut.basic_pay.n * (208 * 100)
                = payIn.salary[1] * payIn.total_hours * payOut.basic_pay.d
          /\ payOut.ot_pay.n * (208 * 100)
                = payIn.salary[1] * payIn.total_ot * payOut.ot_pay.d
          /\ RatEq(payOut.total_pay, RatAdd(payOut.basic_pay, payOut.ot_pay))
    /\ (Paid /\ payIn = ScenarioA) =>
          /\ payOut.basic_pay = Rat(416000, 1)
          /\ payOut.ot_pay = RatZero
          /\ payOut.total_pay = Rat(416000, 1)
          /\ payOut.Total_Pay_Est = 416000

C2_Witness ==
    /\ payOut.page = "payroll"
    /\ payIn.salary = Some(208)
    /\ payIn.total_hours = 433
    /\ payIn.total_ot = 125
    /\ payIn.month = 2
    /\ payOut.basic_pay = Rat(433, 100)
    /\ payOut.ot_pay = Rat(125, 100)

\* |x - q| <= 1/2 for the integer x and the rational q.
Nearest(x, q) == 2 * Abs(x * q.d - q.n) <= q.d

\* C3: each of the three pay figures of an output row is the unrounded
\* value rounded to the nearest whole unit; the reported total is the
\* rounding of the unrounded sum basic pay + overtime pay.
C3_RoundedAtOutput ==
    Paid =>
        /\ Nearest(payOut.Basic_Pay_Est, payOut.basic_pay)
        /\ Nearest(payOut.OT_Pay_Est, payOut.ot_pay)
        /\ Nearest(payOut.Total_Pay_Est, RatAdd(payOut.basic_pay, payOut.ot_pay))

\* The rounded parts do not add up to the reported total: basic pay 0.5 and
\* overtime pay 0.5 are reported as 0 and 0, the total 1.0 as 1.
C3_Witness ==
    /\ Paid
    /\ payOut.basic_pay = Rat(1, 2)
    /\ payOut.ot_pay = Rat(1, 2)
    /\ payOut.Basic_Pay_Est + payOut.OT_Pay_Est # payOut.Total_Pay_Est
    /\ payOut.Total_Pay_Est = 1

\* ------------------------------------------------------------------------
\* Specification of the KPI scoring alone: one row of agg, drawn from the
\* cases of interest, is scored as _build_kpi_df scores it.
\* ------------------------------------------------------------------------
KpiDaysPresent == {0, 1, 20}
KpiDaysAbsent == {0, 1, 5}
KpiDaysLeave == {0, 2}
KpiOvertime == {0, 2000, 4000, 5000}
KpiWorkOrders == {<<0, 0>>, <<1, 0>>, <<3, 2>>, <<3, 3>>, <<1, 2>>}
KpiFleetHours == {0, 3000, 6000, 9000}

KpiInputs ==
    [days_present : KpiDaysPresent, days_absent : KpiDaysAbsent,
     days_leave : KpiDaysLeave, total_ot : KpiOvertime,
     wo : KpiWorkOrders, fleet_hours : KpiFleetHours]

InitKpi ==
    /\ workers = <<>>
    /\ attendance = EmptyBag
    /\ work_orders = EmptyBag
    /\ fleet_timesheet = EmptyBag
    /\ out = NoOut
    /\ payIn = NoRow
    /\ payOut = NoPay
    /\ sessions = [s \in Sessions |-> Idle]
    /\ kpiIn \in KpiInputs
    /\ kpiOut = NoKpi
    /\ dbOut = NoCall
    /\ again = NoOut
    /\ MoreIdle

\* agg.apply(calc_attendance_rate), agg.apply(calc_wo_close_rate),
\* agg.apply(calc_scores) on the row.
ScoreRow ==
    /\ kpiOut = NoKpi
    /\ LET attendance_pct ==
               calc_attendance_rate(kpiIn.days_present, kpiIn.days_absent)
           wo_close_pct == calc_wo_close_rate(kpiIn.wo[1], kpiIn.wo[2])
           sc == calc_scores(attendance_pct, kpiIn.total_ot, wo_close_pct,
                             kpiIn.fleet_hours)
       IN  kpiOut' = [page |-> "kpi", attendance_pct |-> attendance_pct,
                      wo_close_pct |-> wo_close_pct,
                      att_score |-> sc.att_score, ot_score |-> sc.ot_score,
                      wo_score |-> sc.wo_score, fleet_score |-> sc.fleet_score,
                      kpi_score |-> sc.kpi_score]
    /\ UNCHANGED <<workers, attendance, work_orders, fleet_timesheet, out,
                   payIn, payOut, sessions, kpiIn, dbOut, again, more>>

\* The page is rendered again: the row is scored afresh.
ScoreAgain ==
    /\ kpiOut # NoKpi
    /\ kpiOut' = NoKpi
    /\ UNCHANGED <<workers, attendance, work_orders, fleet_timesheet, out,
                   payIn, payOut, sessions, kpiIn, dbOut, again, more>>

NextKpi ==
    \/ ScoreRow
    \/ ScoreAgain

SpecKpi == InitKpi /\ [][NextKpi]_vars

\* ------------------------------------------------------------------------
\* Claims about the KPI scoring (checked under SpecKpi)
\* ------------------------------------------------------------------------
Scored == kpiOut # NoKpi
\* The rational q is the fraction num/den x 100.
IsPercentOf(q, num, den) == q.n * den = 100 * num * q.d
Hundred == [n |-> 100, d |-> 1]
Zero == [n |-> 0, d |-> 1]

\* C12: the attendance score is days present / (days present + days absent)
\* x 100 when that denominator is positive and 0 when it is 0; leave days
\* enter neither, so the score is 100 whenever no day is absent and some day
\* is present, for any number of leave days.
C12_AttendanceScore ==
    Scored =>
        LET p == kpiIn.days_present
            a == kpiIn.days_absent
        IN  /\ kpiOut.att_score = kpiOut.attendance_pct
            /\ p + a = 0 => kpiOut.att_score = Zero
            /\ p + a > 0 => IsPercentOf(kpiOut.att_score, p, p + a)
            /\ a = 0 /\ p > 0 => kpiOut.att_score = Hundred

\* Scenario C: 20 days present, 5 absent, 2 on leave give 80.
C12_Witness ==
    /\ Scored
    /\ kpiIn.days_present = 20 /\ kpiIn.days_absent = 5 /\ kpiIn.days_leave = 2
    /\ kpiOut.att_score = [n |-> 80, d |-> 1]

\* C13: the overtime score is min(total overtime hours, 40) / 40 x 100 and
\* the fleet score is min(hours used, 60) / 60 x 100: 100 at and above the
\* cap, proportional below it.
C13_CappedLinearScores ==
    Scored =>
        /\ IsPercentOf(kpiOut.ot_score,
                       Min(kpiIn.total_ot, OtCap * HoursScale), OtCap * HoursScale)
        /\ IsPercentOf(kpiOut.fleet_score,
                       Min(kpiIn.fleet_hours, FleetCap * HoursScale),
                       FleetCap * HoursScale)
        /\ kpiIn.total_ot >= OtCap * HoursScale => kpiOut.ot_score = Hundred
        /\ kpiIn.fleet_hours >= FleetCap * HoursScale => kpiOut.fleet_score = Hundred

\* 20 overtime hours give 50; 90 fleet hours, beyond the cap, give 100.
C13_Witness ==
    /\ Scored
    /\ kpiIn.total_ot = 2000 /\ kpiOut.ot_score = [n |-> 50, d |-> 1]
    /\ kpiIn.fleet_hours = 9000 /\ kpiOut.fleet_score = Hundred

\* C15: the KPI score is 0.4 x attendance score + 0.2 x overtime score +
\* 0.2 x work-order score + 0.2 x fleet score over the clamped sub-scores,
\* rounded to one decimal.  In tenths, and with the weighted sum taken over a
\* common denominator: twice the distance between the score and ten times
\* the sum is at most 1.
C15_WeightedComposite ==
    Scored =>
        LET a == kpiOut.att_score
            o == kpiOut.ot_score
            w == kpiOut.wo_score
            f == kpiOut.fleet_score
            den == a.d * o.d * w.d * f.d
            \* 10 x (0.4 a + 0.2 o + 0.2 w + 0.2 f) x den
            num == 4 * a.n * (o.d * w.d * f.d) + 2 * o.n * (a.d * w.d * f.d)
                   + 2 * w.n * (a.d * o.d * f.d) + 2 * f.n * (a.d * o.d * w.d)
        IN  /\ 2 * (kpiOut.kpi_score * den - num) <= den
            /\ 2 * (num - kpiOut.kpi_score * den) <= den

\* Scenario D: attendance 80, 40 overtime hours, every work order closed, no
\* fleet hours give 72.0.
C15_Witness ==
    /\ Scored
    /\ kpiOut.att_score = [n |-> 80, d |-> 1]
    /\ kpiIn.total_ot = 4000
    /\ kpiOut.wo_score = Hundred
    /\ kpiIn.fleet_hours = 0
    /\ kpiOut.kpi_score = 720

BetweenZeroAndHundred(q) == 0 <= q.n /\ q.n <= 100 * q.d

\* C16: for non-negative inputs each of the four sub-scores and the KPI score
\* lies in [0, 100].
C16_ScoresWithinRange ==
    Scored =>
        /\ BetweenZeroAndHundred(kpiOut.att_score)
        /\ BetweenZeroAndHundred(kpiOut.ot_score)
        /\ BetweenZeroAndHundred(kpiOut.wo_score)
        /\ BetweenZeroAndHundred(kpiOut.fleet_score)
        /\ 0 <= kpiOut.kpi_score /\ kpiOut.kpi_score <= 1000

\* Every input at or beyond its best value: all scores are exactly 100.
C16_Witness ==
    /\ Scored
    /\ kpiIn.total_ot = 5000 /\ kpiIn.fleet_hours = 9000
    /\ kpiOut.att_score = Hundred /\ kpiOut.ot_score = Hundred
    /\ kpiOut.wo_score = Hundred /\ kpiOut.fleet_score = Hundred
    /\ kpiOut.kpi_score = 1000

\* ------------------------------------------------------------------------
\* Claims about the work-order score (checked under SpecWorkOrders)
\* ------------------------------------------------------------------------
\* The stored work orders assigned to worker i and requested within the
\* period on display, counted as often as they are stored.
AssignedInPeriod(i) ==
    {x \in BagToSet(work_orders) :
        x.assigned_worker_id = i /\ out.start <= x.requested_at
        /\ x.requested_at <= out.end}
RECURSIVE StoredOrders(_)
StoredOrders(S) ==
    IF S = {} THEN 0
    ELSE LET x == CHOOSE y \in S : TRUE
         IN  CopiesIn(x, work_orders) + StoredOrders(S \ {x})

C18_InvalidRangeRejected ==
    out # NoOut /\ out.start > out.end =>
        /\ out.kind = "error"
        /\ out.page = "kpi" /\ ~out.fetched
        /\ out.rows = <<>>

\* The KPI page asked for day 3 to day 2 while an active worker is stored.
C18_Witness ==
    /\ out # NoOut
    /\ out.page = "kpi" /\ out.start = 3 /\ out.end = 2
    /\ out.kind = "error"
    /\ ActiveIds # {}

\* The page on display was asked for a roster without workers, or for a
\* period in which its workers have no attendance row.
EmptyInput ==
    /\ out # NoOut
    /\ out.start <= out.end
    /\ IF out.page = "salary_slips"
       THEN ActiveIds = {} \/ (out.kind # "info" /\ InPeriod({out.worker_id}) = {})
       ELSE Roster = {} \/ InPeriod(Roster) = {}

\* The page completed, and the rows it shows, if any, are all-zero.
EmptyOrZeroRows ==
    /\ out.kind \in {"info", "warning", "table", "slip"}
    /\ out.kind = "table" =>
          \A r \in OutRows :
              /\ r.total_hours = 0 /\ r.total_ot = 0
              /\ out.page \in DayCountPages => ZeroDays(r)
              /\ out.page \in PayPages => ZeroPay(r)
              /\ out.page = "kpi" => r.att_score = Zero /\ r.ot_score = Zero
    /\ out.kind = "slip" =>
          /\ out.days_present = 0 /\ out.days_absent = 0 /\ out.days_leave = 0
          /\ out.total_hours = 0 /\ out.total_ot = 0
          /\ out.ot_amount = Zero

DbRows == {<<>>, <<1>>, <<1, 2>>, <<2, 1>>}

DbCalls ==
    [fn : {"fetch_all", "execute"},
     connectOk : BOOLEAN,   \* psycopg2.connect succeeds
     statementOk : BOOLEAN, \* cur.execute succeeds
     finishOk : BOOLEAN,    \* cur.fetchall / conn.commit succeeds
     rows : DbRows,         \* what the statement selects
     pc : {"call"}, committed : {FALSE}, closed : {FALSE},
     result : {<<>>}]

InitDb ==
    /\ workers = <<>>
    /\ attendance = EmptyBag
    /\ work_orders = EmptyBag
    /\ fleet_timesheet = EmptyBag
    /\ out = NoOut
    /\ payIn = NoRow
    /\ payOut = NoPay
    /\ sessions = [s \in Sessions |-> Idle]
    /\ kpiIn = NoKpi
    /\ kpiOut = NoKpi
    /\ dbOut \in {c \in DbCalls : c.fn = "execute" => c.rows = <<>>}
    /\ again = NoOut
    /\ MoreIdle

DbUnchanged ==
    UNCHANGED <<workers, attendance, work_orders, fleet_timesheet, out,
                payIn, payOut, sessions, kpiIn, kpiOut, again, more>>

Returns(v) == <<"returns", v>>
Raises == <<"raises">>

\* Faulty variant of get_connection: the failure of connect is not caught.
get_connection_unguarded(connectOk) == IF connectOk THEN "conn" ELSE "raise"

\* get_connection: try: return psycopg2.connect(..) except Exception: print;
\* return None
get_connection(connectOk) == IF connectOk THEN "conn" ELSE "None"

\* conn = get_connection(); if conn is None: return [] / return False.  The
\* call is outside the try block: an exception of it would leave the
\* helper.
DbOpen ==
    /\ dbOut.pc = "call"
    /\ LET conn == get_connection(dbOut.connectOk)
       IN  dbOut' =
             IF conn = "raise"
             THEN [dbOut EXCEPT !.pc = "returned", !.result = Raises]
             ELSE IF conn = "None"
             THEN [dbOut EXCEPT !.pc = "returned",
                     !.result = Returns(IF dbOut.fn = "fetch_all"
                                        THEN <<>> ELSE FALSE)]
             ELSE [dbOut EXCEPT !.pc = "statement"]
    /\ DbUnchanged

\* try: with conn.cursor() as cur: cur.execute(sql, params or ())
DbStatement ==
    /\ dbOut.pc = "statement"
    /\ dbOut' = [dbOut EXCEPT !.pc = IF dbOut.statementOk THEN "finish" ELSE "except"]
    /\ DbUnchanged

\* fetch_all: rows = cur.fetchall(); conn.close(); return rows
\* execute:   conn.commit(); conn.close(); return True
DbFinish ==
    /\ dbOut.pc = "finish"
    /\ dbOut' =
         IF ~dbOut.finishOk
         THEN [dbOut EXCEPT !.pc = "except"]
         ELSE IF dbOut.fn = "fetch_all"
         THEN [dbOut EXCEPT !.pc = "returned", !.closed = TRUE,
                 !.result = Returns(dbOut.rows)]
         ELSE [dbOut EXCEPT !.pc = "returned", !.committed = TRUE,
                 !.closed = TRUE, !.result = Returns(TRUE)]
    /\ DbUnchanged

\* except Exception as e: print(..); conn.close(); return [] / return False
DbExcept ==
    /\ dbOut.pc = "except"
    /\ dbOut' = [dbOut EXCEPT !.pc = "returned", !.closed = TRUE,
                   !.result = Returns(IF dbOut.fn = "fetch_all"
                                      THEN <<>> ELSE FALSE)]
    /\ DbUnchanged

NextDb ==
    \/ DbOpen
    \/ DbStatement
    \/ DbFinish
    \/ DbExcept

SpecDb == InitDb /\ [][NextDb]_vars

\* ------------------------------------------------------------------------
\* Claims about the database helper (checked under SpecDb)
\* ------------------------------------------------------------------------
DbFailed == ~dbOut.connectOk \/ ~dbOut.statementOk \/ ~dbOut.finishOk

\* C20: fetch_all never raises: when the connection cannot be opened or the
\* query fails it returns an empty list, and otherwise the rows; execute
\* never raises either: it returns False on any failure, and True only after
\* the statement was committed.
C20_HelpersNeverRaise ==
    dbOut.pc = "returned" =>
        /\ dbOut.result # Raises
        /\ dbOut.fn = "fetch_all" =>
              dbOut.result = Returns(IF DbFailed THEN <<>> ELSE dbOut.rows)
        /\ dbOut.fn = "execute" =>
              /\ dbOut.result \in {Returns(TRUE), Returns(FALSE)}
              /\ dbOut.result = Returns(TRUE) => dbOut.committed
              /\ DbFailed => dbOut.result = Returns(FALSE)

\* A query over two rows whose connection cannot be opened: an empty list.
C20_Witness ==
    /\ dbOut.pc = "returned"
    /\ dbOut.fn = "fetch_all" /\ dbOut.rows = <<1, 2>>
    /\ ~dbOut.connectOk
    /\ dbOut.result = Returns(<<>>)

\* ------------------------------------------------------------------------
\* Claims about the only-active option (checked under Spec)
\* ------------------------------------------------------------------------
OptionPages == {"payroll", "attendance"}

\* The workers with a row in the table on display.
Appearing ==
    IF out.kind = "table"
    THEN {i \in WorkerIds : \E r \in OutRows : IsRowOf(i, r)}
    ELSE {}

C22_WithAnActiveWorker ==
    out # NoOut /\ out.page \in OptionPages /\ out.kind # "warning" =>
        Appearing = SelectedWorkers(out.only_active)

C22_Witness ==
    /\ out # NoOut /\ out.page = "attendance" /\ out.kind = "table"
    /\ ~out.only_active
    /\ \E i \in Appearing : workers[i].status = "Inactive"
    /\ \E i \in Appearing : workers[i].status = "Active"

\* ------------------------------------------------------------------------
\* Specification of report requests by concurrent sessions that export or
\* download a document, one request per session.  All sessions are served
\* by one process with one working directory and one LOCAL_DATA_DIR.
\* ------------------------------------------------------------------------
LabourTotals == {48, 100}
OverheadPercents == {15}

\* A path: the fixed part of the file name and the worker code and month
\* formatted into it (0: none).
Path(name, code, month) == [name |-> name, code |-> code, month |-> month]

\* with open(path, "w"/"wb"): the file is created or replaced.
WriteFile(path, content) ==
    [p \in DOMAIN files \cup {path} |-> IF p = path THEN content ELSE files[p]]

\* create_invoice_pdf: what the invoice document prints, amounts as
\* rationals; overhead and grand total are rounded to 3 decimals.
create_invoice_pdf(labour_total, overhead_percent) ==
    LET subtotal == labour_total
        overhead_amount == Rat(round0(Rat(subtotal * overhead_percent * 1000, 100)), 1000)
        grand_total == Rat(round0(RatScale(1000, RatAdd(Rat(subtotal, 1), overhead_amount))), 1000)
    IN  [page |-> "invoice_pdf", labour_total |-> labour_total,
         overhead_amount |-> overhead_amount, grand_total |-> grand_total]

\* invoice_pdf.render after "Generate Monthly Invoice PDF":
\* output_file = "facility_invoice.pdf", written by create_invoice_pdf.
InvoicePdfWrite(s) ==
    /\ sessions[s].pc = "idle"
    /\ \E labour_total \in LabourTotals, overhead_percent \in OverheadPercents :
        LET doc == create_invoice_pdf(labour_total, overhead_percent)
        IN  /\ files' = WriteFile(Path("facility_invoice.pdf", 0, 0), doc)
            /\ sessions' = [sessions EXCEPT ![s] =
                   [pc |-> "written", path |-> Path("facility_invoice.pdf", 0, 0), own |-> doc]]
    /\ UNCHANGED <<workers, attendance, work_orders, fleet_timesheet, out,
                   payIn, payOut, kpiIn, kpiOut, dbOut, again, invoices, vehicle_timesheets>>

\* salary_slips.render after "Generate Salary Slip PDF": the attendance of
\* the worker is loaded and _generate_slip writes
\* SLIP_DIR/Salary_Slip_{worker_code}_{year}_{month}.pdf.
SalarySlipWrite(s) ==
    /\ sessions[s].pc = "idle"
    /\ \E sel_label \in worker_labels, month \in Months :
        \E worker_id \in worker_id_map(sel_label) :
            LET doc == generate_slip(worker_id, month,
                                     slip_load_attendance(worker_id, month))
                path == Path("Salary_Slip", workers[worker_id].worker_code, month)
            IN  /\ files' = WriteFile(path, doc)
                /\ sessions' = [sessions EXCEPT ![s] =
                       [pc |-> "written", path |-> path, own |-> doc]]
    /\ UNCHANGED <<workers, attendance, work_orders, fleet_timesheet, out,
                   payIn, payOut, kpiIn, kpiOut, dbOut, again, invoices, vehicle_timesheets>>

\* with open(path, "rb") as f: st.download_button(..., f, ...): the
\* download is what the file holds when it is opened.
DownloadWritten(s) ==
    /\ sessions[s].pc = "written"
    /\ sessions' = [sessions EXCEPT ![s] =
           [pc |-> "done", path |-> sessions[s].path, own |-> sessions[s].own,
            delivered |-> files[sessions[s].path]]]
    /\ UNCHANGED <<workers, attendance, work_orders, fleet_timesheet, out,
                   payIn, payOut, kpiIn, kpiOut, dbOut, again, more>>

\* payroll.render, export: the table is saved as
\* LOCAL_DATA_DIR/payroll_{year}_{month}.csv, and the download button gets
\* csv_data, made from the table of this request.
PayrollExport(s) ==
    /\ sessions[s].pc = "idle"
    /\ \E month \in Months, only_active \in BOOLEAN :
        \E rows \in SummaryQuery(month_start(month), month_end(month), only_active) :
            LET df == PayrollReport(month_start(month), month_end(month),
                                    only_active, rows)
            IN  /\ df.kind = "table"
                /\ files' = WriteFile(Path("payroll", 0, month), df.rows)
                /\ sessions' = [sessions EXCEPT ![s] =
                       [pc |-> "done", path |-> Path("payroll", 0, month),
                        own |-> df.rows, delivered |-> df.rows]]
    /\ UNCHANGED <<workers, attendance, work_orders, fleet_timesheet, out,
                   payIn, payOut, kpiIn, kpiOut, dbOut, again, invoices, vehicle_timesheets>>

\* Daily entry of a status with and one without hours, the read succeeding.
FilesDailyEntry ==
    /\ out = NoOut
    /\ \E l \in worker_labels, w \in ActiveIds, d \in Dates,
          st \in RaceStatuses, i \in InTimes, o \in OutTimes :
            DailyEntrySave(l, w, d, st, i, o, TRUE)

\* The roster of this specification is one worker.
FilesAddWorker == workers = <<>> /\ AddWorker
FilesInvoicePdf == \E s \in Sessions : InvoicePdfWrite(s)
FilesSalarySlip == \E s \in Sessions : SalarySlipWrite(s)
FilesDownload == \E s \in Sessions : DownloadWritten(s)
FilesPayrollExport == \E s \in Sessions : PayrollExport(s)

NextFiles ==
    \/ FilesAddWorker
    \/ FilesDailyEntry
    \/ FilesInvoicePdf
    \/ FilesSalarySlip
    \/ FilesDownload
    \/ FilesPayrollExport

SpecFiles == Init /\ [][NextFiles]_vars

\* ------------------------------------------------------------------------
\* Claims about concurrent report requests (checked under SpecFiles)
\* ------------------------------------------------------------------------
\* C23: report requests of concurrent sessions are independent: the
\* document a request delivers for download is the one made from its own
\* inputs, whatever the other sessions request meanwhile.
C23_RequestsIndependent ==
    \A s \in Sessions :
        sessions[s].pc = "done" => sessions[s].delivered = sessions[s].own

\* C23 for the exported files: while a request is on display, the file it
\* exported holds what was made from its inputs.
C23_ExportedFileIsOwn ==
    \A s \in Sessions :
        sessions[s].pc = "done" => files[sessions[s].path] = sessions[s].own

\* ------------------------------------------------------------------------
\* Specification of one KPI computation at a time, made of its three
\* loaders, while other sessions save attendance and create work orders.
\* Each fetch_all opens a connection of its own, runs one SELECT and closes
\* the connection: three statements, three transactions.
\* ------------------------------------------------------------------------
Store == <<workers, attendance, work_orders, fleet_timesheet>>

NoComputation == \A s \in Sessions : sessions[s].pc = "idle"

\* df_att = _load_attendance(start_date, end_date): the first SELECT, over
\* workers and attendance.  seen collects the states the store goes through
\* while the computation runs; it is not program state.
KpiLoadAttendance(s) ==
    /\ NoComputation
    /\ ActiveIds # {}
    /\ sessions' = [sessions EXCEPT ![s] =
           [pc |-> "att", df_att |-> <<workers, attendance>>, seen |-> {Store}]]
    /\ UNCHANGED <<workers, attendance, work_orders, fleet_timesheet, out,
                   payIn, payOut, kpiIn, kpiOut, dbOut, again, more>>

\* df_wo = _load_work_orders(start_date, end_date): the second SELECT.
KpiLoadWorkOrders(s) ==
    /\ sessions[s].pc = "att"
    /\ sessions' = [sessions EXCEPT ![s] =
           [pc |-> "wo", df_att |-> sessions[s].df_att, df_wo |-> work_orders,
            seen |-> sessions[s].seen]]
    /\ UNCHANGED <<workers, attendance, work_orders, fleet_timesheet, out,
                   payIn, payOut, kpiIn, kpiOut, dbOut, again, more>>

\* df_fleet = _load_fleet(start_date, end_date): the third SELECT; the rest
\* of _build_kpi_df combines the three frames without reading the store.
KpiLoadFleet(s) ==
    /\ sessions[s].pc = "wo"
    /\ sessions' = [sessions EXCEPT ![s] =
           [pc |-> "done", df_att |-> sessions[s].df_att,
            df_wo |-> sessions[s].df_wo, df_fleet |-> fleet_timesheet,
            seen |-> sessions[s].seen]]
    /\ UNCHANGED <<workers, attendance, work_orders, fleet_timesheet, out,
                   payIn, payOut, kpiIn, kpiOut, dbOut, again, more>>

KpiOver(s) ==
    /\ sessions[s].pc = "done"
    /\ sessions' = [sessions EXCEPT ![s] = Idle]
    /\ UNCHANGED <<workers, attendance, work_orders, fleet_timesheet, out,
                   payIn, payOut, kpiIn, kpiOut, dbOut, again, more>>

\* The running computation has one more store state to its period.
Seen(store) ==
    [s \in Sessions |->
        IF sessions[s].pc = "idle" THEN sessions[s]
        ELSE [sessions[s] EXCEPT !.seen = @ \cup {store}]]

\* Another session saves attendance with the daily-entry form.
OtherSavesAttendance ==
    /\ \E l \in worker_labels, d \in Dates, i \in InTimes, o \in OutTimes :
        \E w \in worker_id_map(l) :
            WriteAttendance(ExistingRows(w, d, TRUE),
                AttRow(w, d, "Present", hours_to_save("Present", i, o),
                       ot_to_save("Present", i, o)))
    /\ UNCHANGED <<workers, work_orders, fleet_timesheet>>
    /\ sessions' = Seen(<<workers', attendance', work_orders', fleet_timesheet'>>)
    /\ UNCHANGED <<out, payIn, payOut, kpiIn, kpiOut, dbOut, again, more>>

\* Another session creates a work order with the supervisor form.
OtherCreatesWorkOrder ==
    /\ \E i \in WorkerIds : IsSupervisor(i)
    /\ StoredRows < MaxRows
    /\ \E l \in worker_labels, d \in Dates :
        \E w \in worker_id_map(l) :
            work_orders' = work_orders (+)
                SetToBag({[assigned_worker_id |-> w, requested_at |-> d,
                           status |-> "Open"]})
    /\ UNCHANGED <<workers, attendance, fleet_timesheet>>
    /\ sessions' = Seen(<<workers', attendance', work_orders', fleet_timesheet'>>)
    /\ UNCHANGED <<out, payIn, payOut, kpiIn, kpiOut, dbOut, again, more>>

SnapshotAddWorker == NoComputation /\ AddWorker
SnapshotLoadAttendance == \E s \in Sessions : KpiLoadAttendance(s)
SnapshotLoadWorkOrders == \E s \in Sessions : KpiLoadWorkOrders(s)
SnapshotLoadFleet == \E s \in Sessions : KpiLoadFleet(s)
SnapshotOver == \E s \in Sessions : KpiOver(s)

NextSnapshot ==
    \/ SnapshotAddWorker
    \/ OtherSavesAttendance
    \/ OtherCreatesWorkOrder
    \/ SnapshotLoadAttendance
    \/ SnapshotLoadWorkOrders
    \/ SnapshotLoadFleet
    \/ SnapshotOver

SpecSnapshot == Init /\ [][NextSnapshot]_vars

\* ------------------------------------------------------------------------
\* Claims about the KPI computation's reads (checked under SpecSnapshot)
\* ------------------------------------------------------------------------
\* C24: the attendance, work-order and fleet rows one KPI computation
\* combines all reflect one state of the store: the store was, at some
\* moment of the computation, in a state holding exactly the three results.
C24_SingleSnapshot ==
    \A s \in Sessions :
        sessions[s].pc = "done" =>
            \E st \in sessions[s].seen :
                /\ sessions[s].df_att = <<st[1], st[2]>>
                /\ sessions[s].df_wo = st[3]
                /\ sessions[s].df_fleet = st[4]

\* C24, second part: the steps of the computation leave the four tables as
\* they are.
C24_ComputationReadsOnly ==
    [][(\E s \in Sessions : sessions[s].pc # "idle" /\ sessions'[s] # sessions[s]
                            /\ sessions'[s].pc # sessions[s].pc)
        => UNCHANGED Store]_vars

\* ------------------------------------------------------------------------
\* Claims about the pay figures of different pages (checked under Spec)
\* ------------------------------------------------------------------------
ShownPay(r) ==
    [Basic_Pay_Est |-> r.Basic_Pay_Est, OT_Pay_Est |-> r.OT_Pay_Est,
     Total_Pay_Est |-> r.Total_Pay_Est]

\* The three table pages would show the same pay figures for the row r.
TablePagesAgree(r) ==
    /\ ShownPay(r) = pay_columns(payroll_compute_pay(r))
    /\ ShownPay(r) = pay_columns(attendance_compute_pay(r))
    /\ ShownPay(r) = pay_columns(compute_row_pay(r))

IsSlip == out # NoOut /\ out.page = "salary_slips" /\ out.kind = "slip"

\* The row of the payroll page (Active workers) with the worker of the slip
\* on display, for the month of the slip.
PayrollRowOfSlip ==
    LET row == SummaryRow(GroupKey(out.worker_id), SelectedWorkers(TRUE),
                          out.start, out.end)
    IN  WithPay(row, payroll_compute_pay(row))

SlipKeyIsUnique ==
    \A j \in ActiveIds : j # out.worker_id => GroupKey(j) # GroupKey(out.worker_id)

\* C25: for the same worker, month and stored rows every page that reports
\* pay gives the same figures: payroll page, monthly summary and invoice
\* labour details compute the same three figures for a row, and the gross
\* pay on the salary slip is the total pay of the worker on the payroll page.
C25_SameFiguresOnEveryPage ==
    /\ out # NoOut /\ IsTable(PayPages) => \A r \in OutRows : TablePagesAgree(r)
    /\ IsSlip => round0(out.gross) = PayrollRowOfSlip.Total_Pay_Est

\* C25 as the pages compute: the three table pages give the same figures;
\* the slip takes the monthly salary as basic pay whatever the hours,
\* gross = basic + overtime amount, and its overtime amount is the overtime
\* pay of the payroll page when no other Active worker has the same code,
\* name, position and salary.
C25_TablesAgreeSlipPaysSalary ==
    /\ out # NoOut /\ IsTable(PayPages) => \A r \in OutRows : TablePagesAgree(r)
    /\ IsSlip =>
        /\ out.basic = workers[out.worker_id].salary
        /\ out.gross = RatAdd(Rat(out.basic, 1), out.ot_amount)
        /\ SlipKeyIsUnique => round0(out.ot_amount) = PayrollRowOfSlip.OT_Pay_Est

C25_Witness ==
    /\ IsSlip /\ SlipKeyIsUnique
    /\ out.total_ot > 0
    /\ PayrollRowOfSlip.Total_Pay_Est > 0
    /\ round0(out.gross) # PayrollRowOfSlip.Total_Pay_Est

\* ------------------------------------------------------------------------
\* Specification of invoice numbering and recording by concurrent sessions
\* (Monthly Invoice page: type FM; Maintenance Invoice page: type MNT).
\* An invoice number "INV-{type}-{year}-{seq}" is modelled by its type and
\* the characters of seq, a sequence of digits; the year is the current one.
\* ------------------------------------------------------------------------
InvoiceTypes == {"FM", "MNT"}
InvoiceAmounts == {100, 200}

\* The decimal digits of n >= 0.
RECURSIVE DigitsOf(_)
DigitsOf(n) == IF n < 10 THEN <<n>> ELSE Append(DigitsOf(n \div 10), n % 10)

\* f"{new_seq:03d}": at least SeqWidth digits, zeros in front.
RECURSIVE ZeroPad(_)
ZeroPad(d) == IF Len(d) >= SeqWidth THEN d ELSE ZeroPad(<<0>> \o d)
Format03d(n) == ZeroPad(DigitsOf(n))

\* int(last_seq_str) of a string of digits.
RECURSIVE ParseInt(_)
ParseInt(d) ==
    IF d = <<>> THEN 0 ELSE 10 * ParseInt(SubSeq(d, 1, Len(d) - 1)) + d[Len(d)]

\* a < b as strings: ORDER BY invoice_no compares text, character by
\* character.
RECURSIVE StrLess(_, _)
StrLess(a, b) ==
    IF a = <<>> THEN b # <<>>
    ELSE IF b = <<>> THEN FALSE
    ELSE IF Head(a) # Head(b) THEN Head(a) < Head(b)
    ELSE StrLess(Tail(a), Tail(b))

InvoiceNo(invoice_type, seq) == [type |-> invoice_type, seq |-> seq]

\* SELECT invoice_no FROM invoices WHERE invoice_type = %s AND invoice_no
\* LIKE prefix% ORDER BY invoice_no DESC LIMIT 1
LastInvoiceNo(invoice_type) ==
    LET nos == {r.invoice_no : r \in {x \in invoices : x.invoice_type = invoice_type
                                                        /\ x.invoice_no.type = invoice_type}}
    IN  {n \in nos : \A m \in nos : ~StrLess(n.seq, m.seq)}

\* get_next_invoice_number: the number after the one the query returned, 001
\* when it returned no row (no invoice stored, or the fetch failed).
get_next_invoice_number(invoice_type, fetchOk) ==
    LET rows == IF fetchOk THEN LastInvoiceNo(invoice_type) ELSE {}
        last_seq == IF rows = {} THEN 0
                    ELSE ParseInt((CHOOSE n \in rows : TRUE).seq)
    IN  InvoiceNo(invoice_type, Format03d(last_seq + 1))

\* The page builds its form: auto_no = auto_invoice_number_fm().  at_call is
\* the table as it was at that call; it is not program state.
InvoiceForm(s) ==
    /\ sessions[s].pc = "idle"
    /\ \E invoice_type \in InvoiceTypes, fetchOk \in BOOLEAN :
        sessions' = [sessions EXCEPT ![s] =
            [pc |-> "form", invoice_type |-> invoice_type,
             auto_no |-> get_next_invoice_number(invoice_type, fetchOk),
             fetched |-> fetchOk, at_call |-> invoices]]
    /\ UNCHANGED <<workers, attendance, work_orders, fleet_timesheet, out,
                   payIn, payOut, kpiIn, kpiOut, dbOut, again, more>>

\* What the user may leave or type in "Invoice No": the suggested number or
\* the last number of SeqWidth digits.
InvoiceNoInputs(invoice_type, auto_no) ==
    {auto_no, InvoiceNo(invoice_type, Format03d(LastOfWidth))}

\* record_invoice: INSERT ... ON CONFLICT (invoice_no) DO NOTHING through
\* execute, which returns True when the statement ran without an exception
\* and False otherwise.
record_invoice(row, execOk) ==
    IF execOk /\ ~\E r \in invoices : r.invoice_no = row.invoice_no
    THEN invoices \cup {row}
    ELSE invoices

\* The form is submitted: the PDF is made and the invoice recorded.
InvoiceSubmit(s) ==
    /\ sessions[s].pc = "form"
    /\ Cardinality(invoices) < MaxRows
    /\ \E invoice_no \in InvoiceNoInputs(sessions[s].invoice_type, sessions[s].auto_no),
          total_amount \in InvoiceAmounts, execOk \in BOOLEAN :
        LET row == [invoice_no |-> invoice_no,
                    invoice_type |-> sessions[s].invoice_type,
                    total_amount |-> total_amount]
        IN  /\ invoices' = record_invoice(row, execOk)
            /\ sessions' = [sessions EXCEPT ![s] =
                   [pc |-> "recorded", row |-> row, result |-> execOk]]
    /\ UNCHANGED <<workers, attendance, work_orders, fleet_timesheet, out,
                   payIn, payOut, kpiIn, kpiOut, dbOut, again, files, vehicle_timesheets>>

InvoiceOver(s) ==
    /\ sessions[s].pc = "recorded"
    /\ sessions' = [sessions EXCEPT ![s] = Idle]
    /\ UNCHANGED <<workers, attendance, work_orders, fleet_timesheet, out,
                   payIn, payOut, kpiIn, kpiOut, dbOut, again, more>>

InvoicesForm == \E s \in Sessions : InvoiceForm(s)
InvoicesSubmit == \E s \in Sessions : InvoiceSubmit(s)
InvoicesOver == \E s \in Sessions : InvoiceOver(s)

NextInvoices ==
    \/ InvoicesForm
    \/ InvoicesSubmit
    \/ InvoicesOver

SpecInvoices == Init /\ [][NextInvoices]_vars

\* ------------------------------------------------------------------------
\* Claims about invoice numbers (checked under SpecInvoices)
\* ------------------------------------------------------------------------
\* The sequence numbers stored for the type in the table t.
StoredSeqs(t, invoice_type) ==
    {ParseInt(r.invoice_no.seq) : r \in {x \in t : x.invoice_type = invoice_type}}

MaxOf(S) == IF S = {} THEN 0 ELSE CHOOSE n \in S : \A m \in S : m <= n

\* C26: get_next_invoice_number returns, for the type and the year, the
\* highest stored sequence number plus one (001 when none is stored), and
\* never a number stored already, also when the numbers 999 and beyond are
\* stored.
C26_NextNumberIsNew ==
    \A s \in Sessions :
        sessions[s].pc = "form" =>
            LET t == sessions[s].at_call
                ty == sessions[s].invoice_type
            IN  /\ sessions[s].auto_no =
                       InvoiceNo(ty, Format03d(MaxOf(StoredSeqs(t, ty)) + 1))
                /\ \A r \in t : r.invoice_no # sessions[s].auto_no

\* C26 while the fetch succeeds and all stored numbers of the type are
\* short of 999: the returned number is the highest plus one and is new.
C26_NewBelowLastOfWidth ==
    \A s \in Sessions :
        LET t == sessions[s].at_call
            ty == sessions[s].invoice_type
        IN  sessions[s].pc = "form" /\ sessions[s].fetched
            /\ MaxOf(StoredSeqs(t, ty)) < LastOfWidth =>
                /\ sessions[s].auto_no =
                       InvoiceNo(ty, Format03d(MaxOf(StoredSeqs(t, ty)) + 1))
                /\ \A r \in t : r.invoice_no # sessions[s].auto_no

\* C27: every invoice for which record_invoice returned True is stored
\* under its number: no invoice is dropped silently, also when two sessions
\* obtained the same number.
C27_RecordedMeansStored ==
    \A s \in Sessions :
        sessions[s].pc = "recorded" /\ sessions[s].result =>
            sessions[s].row \in invoices

\* C27 when record_invoice is the only one to use the number.
C27_StoredUnlessNumberTaken ==
    \A s \in Sessions :
        sessions[s].pc = "recorded" /\ sessions[s].result =>
            \E r \in invoices : r.invoice_no = sessions[s].row.invoice_no

\* ------------------------------------------------------------------------
\* Specification of "Load / Create Timesheet" by concurrent sessions.
\* get_or_create_timesheet is three statements, each on a connection of its
\* own: SELECT, INSERT, SELECT.  The table has UNIQUE (equipment_code,
\* month, year).
\* ------------------------------------------------------------------------
EquipmentCodes == {"EQ1", "EQ2"}
OperatorNames == {"op1", "op2"}
None == [none |-> TRUE]

TimesheetKey(r) == <<r.equipment_code, r.month>>

\* SELECT * FROM vehicle_timesheets WHERE equipment_code = %s AND month = %s
\* AND year = %s, through fetch_all.
TimesheetRows(key, fetchOk) ==
    IF fetchOk THEN {r \in vehicle_timesheets : TimesheetKey(r) = key} ELSE {}

\* rows = fetch_all(...); if rows: return rows[0]
TimesheetRead(s) ==
    /\ sessions[s].pc = "idle"
    /\ \E equipment_code \in EquipmentCodes, month \in Months,
          operator \in OperatorNames, fetchOk \in BOOLEAN :
        LET row == [equipment_code |-> equipment_code, month |-> month,
                    operator_name |-> operator]
            rows == TimesheetRows(TimesheetKey(row), fetchOk)
        IN  sessions' = [sessions EXCEPT ![s] =
                IF rows # {}
                THEN [pc |-> "returned", row |-> row, db_failed |-> FALSE,
                      result |-> CHOOSE r \in rows : TRUE]
                ELSE [pc |-> "insert", row |-> row, db_failed |-> ~fetchOk]]
    /\ UNCHANGED <<workers, attendance, work_orders, fleet_timesheet, out,
                   payIn, payOut, kpiIn, kpiOut, dbOut, again, more>>

\* ok = execute(INSERT ...); if not ok: return None.  The statement fails
\* when the connection does or when a row with the key is stored.
TimesheetInsert(s) ==
    /\ sessions[s].pc = "insert"
    /\ \E execOk \in BOOLEAN :
        LET row == sessions[s].row
            ok == execOk /\ TimesheetRows(TimesheetKey(row), TRUE) = {}
        IN  /\ ok => Cardinality(vehicle_timesheets) < MaxRows
            /\ vehicle_timesheets' =
                  IF ok THEN vehicle_timesheets \cup {row} ELSE vehicle_timesheets
            /\ sessions' = [sessions EXCEPT ![s] =
                  IF ok
                  THEN [pc |-> "reread", row |-> row,
                        db_failed |-> sessions[s].db_failed]
                  ELSE [pc |-> "returned", row |-> row,
                        db_failed |-> sessions[s].db_failed \/ ~execOk,
                        result |-> None]]
    /\ UNCHANGED <<workers, attendance, work_orders, fleet_timesheet, out,
                   payIn, payOut, kpiIn, kpiOut, dbOut, again, files, invoices>>

\* rows = fetch_all(...); return rows[0] if rows else None
TimesheetReread(s) ==
    /\ sessions[s].pc = "reread"
    /\ \E fetchOk \in BOOLEAN :
        LET rows == TimesheetRows(TimesheetKey(sessions[s].row), fetchOk)
        IN  sessions' = [sessions EXCEPT ![s] =
                [pc |-> "returned", row |-> sessions[s].row,
                 db_failed |-> sessions[s].db_failed \/ ~fetchOk,
                 result |-> IF rows # {} THEN CHOOSE r \in rows : TRUE ELSE None]]
    /\ UNCHANGED <<workers, attendance, work_orders, fleet_timesheet, out,
                   payIn, payOut, kpiIn, kpiOut, dbOut, again, more>>

\* The page shows the timesheet, or the error when header is None.
TimesheetShown(s) ==
    /\ sessions[s].pc = "returned"
    /\ sessions' = [sessions EXCEPT ![s] = Idle]
    /\ UNCHANGED <<workers, attendance, work_orders, fleet_timesheet, out,
                   payIn, payOut, kpiIn, kpiOut, dbOut, again, more>>

TimesheetsRead == \E s \in Sessions : TimesheetRead(s)
TimesheetsInsert == \E s \in Sessions : TimesheetInsert(s)
TimesheetsReread == \E s \in Sessions : TimesheetReread(s)
TimesheetsShown == \E s \in Sessions : TimesheetShown(s)

NextTimesheets ==
    \/ TimesheetsRead
    \/ TimesheetsInsert
    \/ TimesheetsReread
    \/ TimesheetsShown

SpecTimesheets == Init /\ [][NextTimesheets]_vars

\* ------------------------------------------------------------------------
\* Claims about vehicle timesheets (checked under SpecTimesheets)
\* ------------------------------------------------------------------------
\* C28: under any interleaving of sessions, and with every statement
\* reaching the store, get_or_create_timesheet returns the row stored for
\* (equipment_code, month, year), never None, and exactly one timesheet is
\* stored for the key.
C28_ReturnsTheOneTimesheet ==
    \A s \in Sessions :
        sessions[s].pc = "returned" /\ ~sessions[s].db_failed =>
            /\ sessions[s].result # None
            /\ sessions[s].result \in vehicle_timesheets
            /\ TimesheetKey(sessions[s].result) = TimesheetKey(sessions[s].row)
            /\ Cardinality(TimesheetRows(TimesheetKey(sessions[s].row), TRUE)) = 1

\* C28, the part the UNIQUE constraint secures: at most one timesheet per
\* key, and a returned row is the stored row of the key.
C28_OneTimesheetPerKey ==
    /\ \A a, b \in vehicle_timesheets : TimesheetKey(a) = TimesheetKey(b) => a = b
    /\ \A s \in Sessions :
        sessions[s].pc = "returned" /\ sessions[s].result # None =>
            /\ sessions[s].result \in vehicle_timesheets
            /\ TimesheetKey(sessions[s].result) = TimesheetKey(sessions[s].row)

\* ------------------------------------------------------------------------
\* Specification of work-order numbering by concurrent sessions.  A row of
\* work_orders is here its id and its wo_number: NULL for the work orders
\* of the supervisor form, the digits XXX of "NPS-WO-XXX" for those of
\* "Save Work Order".  wo_number is UNIQUE.
\* ------------------------------------------------------------------------
NextWoId == BagCardinality(work_orders) + 1

\* SELECT wo_number FROM work_orders WHERE wo_number IS NOT NULL
\* ORDER BY id DESC LIMIT 1
LastWoNumber ==
    LET numbered == {r \in BagToSet(work_orders) : r.wo_number # NULL}
    IN  {r \in numbered : \A q \in numbered : q.id <= r.id}

\* generate_next_wo_number: 001 when the query returned no row, otherwise
\* the number of the row plus one, with at least three digits.
generate_next_wo_number(fetchOk) ==
    LET rows == IF fetchOk THEN LastWoNumber ELSE {}
    IN  IF rows = {} THEN Format03d(1)
        ELSE Format03d(ParseInt((CHOOSE r \in rows : TRUE).wo_number[1]) + 1)

\* "Save Work Order": wo_number = generate_next_wo_number()
WoNumber(s) ==
    /\ sessions[s].pc = "idle"
    /\ \E fetchOk \in BOOLEAN :
        sessions' = [sessions EXCEPT ![s] =
            [pc |-> "numbered", wo_number |-> generate_next_wo_number(fetchOk),
             db_failed |-> ~fetchOk]]
    /\ UNCHANGED <<workers, attendance, work_orders, fleet_timesheet, out,
                   payIn, payOut, kpiIn, kpiOut, dbOut, again, more>>

\* ok = execute(INSERT INTO work_orders (wo_number, ...)): the statement
\* fails when the connection does or when the number is stored already.
WoInsert(s) ==
    /\ sessions[s].pc = "numbered"
    /\ \E execOk \in BOOLEAN :
        LET wo_number == sessions[s].wo_number
            ok == execOk /\ \A r \in BagToSet(work_orders) : r.wo_number # Some(wo_number)
        IN  /\ ok => StoredRows < MaxRows
            /\ work_orders' =
                  IF ok
                  THEN work_orders (+)
                       SetToBag({[id |-> NextWoId, wo_number |-> Some(wo_number)]})
                  ELSE work_orders
            /\ sessions' = [sessions EXCEPT ![s] =
                  [pc |-> "saved", wo_number |-> wo_number, ok |-> ok,
                   db_failed |-> sessions[s].db_failed \/ ~execOk]]
    /\ UNCHANGED <<workers, attendance, fleet_timesheet, out,
                   payIn, payOut, kpiIn, kpiOut, dbOut, again, more>>

\* st.success(...) and rerun, or st.error("Failed to save Work Order.")
WoShown(s) ==
    /\ sessions[s].pc = "saved"
    /\ sessions' = [sessions EXCEPT ![s] = Idle]
    /\ UNCHANGED <<workers, attendance, work_orders, fleet_timesheet, out,
                   payIn, payOut, kpiIn, kpiOut, dbOut, again, more>>

\* The supervisor form inserts a work order without wo_number.
SupervisorWorkOrder ==
    /\ StoredRows < MaxRows
    /\ work_orders' = work_orders (+) SetToBag({[id |-> NextWoId, wo_number |-> NULL]})
    /\ UNCHANGED <<workers, attendance, fleet_timesheet, out, payIn, payOut, aux, more>>

WoNumbersNumber == \E s \in Sessions : WoNumber(s)
WoNumbersInsert == \E s \in Sessions : WoInsert(s)
WoNumbersShown == \E s \in Sessions : WoShown(s)

NextWoNumbers ==
    \/ WoNumbersNumber
    \/ WoNumbersInsert
    \/ WoNumbersShown
    \/ SupervisorWorkOrder

SpecWoNumbers == Init /\ [][NextWoNumbers]_vars

\* ------------------------------------------------------------------------
\* Claims about work-order numbers (checked under SpecWoNumbers)
\* ------------------------------------------------------------------------
\* C29: with every statement reaching the store, each "Save Work Order" is
\* given a number no stored work order has and its insert is not rejected,
\* under any interleaving of sessions and with work orders without number
\* stored by the supervisor form.
C29_SaveNeverRejected ==
    \A s \in Sessions :
        sessions[s].pc = "saved" /\ ~sessions[s].db_failed => sessions[s].ok

\* C29, what the UNIQUE constraint secures: no two stored work orders have
\* the same number, and a work order without number is never taken as the
\* last one.
C29_StoredNumbersDistinct ==
    /\ \A a, b \in BagToSet(work_orders) :
          a.wo_number # NULL /\ a.wo_number = b.wo_number => a = b
    /\ \A r \in LastWoNumber : r.wo_number # NULL

\* ------------------------------------------------------------------------
\* Specification of the two attendance forms with in and out times in any
\* order: a day of 5 minutes, a day of 9 hours, and out times that are not
\* after the in time.
\* ------------------------------------------------------------------------
FormInTimes == {480, 1020}
FormOutTimes == {480, 485, 1020}

FormsDailyEntry ==
    /\ out = NoOut
    /\ \E l \in worker_labels, w \in ActiveIds, d \in Dates,
          st \in RaceStatuses, i \in FormInTimes, o \in FormOutTimes :
            DailyEntrySave(l, w, d, st, i, o, TRUE)

FormsQuickAttendance ==
    /\ out = NoOut
    /\ \E l \in worker_labels, w \in ActiveIds, d \in Dates,
          i \in FormInTimes, o \in FormOutTimes, readOk \in BOOLEAN :
            QuickAttendanceSave(l, w, d, i, o, readOk)

NextForms ==
    \/ AddWorker
    \/ FormsDailyEntry
    \/ FormsQuickAttendance

SpecForms == Init /\ [][NextForms]_vars

\* ------------------------------------------------------------------------
\* Claims about the hours the forms store (checked under SpecForms)
\* ------------------------------------------------------------------------
\* C30: every attendance row written by the daily-entry form or the
\* supervisor quick-attendance form has hours_worked >= 0 and
\* overtime_hours = max(0, hours_worked - 8), so overtime never exceeds the
\* hours worked; and both forms compute 0 hours and 0 overtime when the out
\* time is not after the in time.
C30_StoredHoursAndOvertime ==
    /\ \A x \in BagToSet(attendance) :
        /\ x.hours_worked >= 0
        /\ x.overtime_hours = Max(0, x.hours_worked - OtThreshold * HoursScale)
        /\ x.overtime_hours <= x.hours_worked
    /\ \A i \in FormInTimes, o \in FormOutTimes :
        o <= i => hours_worked(i, o) = 0 /\ overtime_hours(i, o) = 0

C30_Witness ==
    /\ \E x \in BagToSet(attendance) :
          x.status = "Present" /\ 0 < x.hours_worked
          /\ x.hours_worked < OtThreshold * HoursScale /\ x.overtime_hours = 0
    /\ \E x \in BagToSet(attendance) : x.status = "Present" /\ x.overtime_hours > 0
    /\ \E x \in BagToSet(attendance) : x.status = "Present" /\ x.hours_worked = 0

====
